---- MODULE Spec2Model ----
(***************************************************************************)
(* Model of swanpeter/nanobanana_grok (src/app.py, src/basic_setting.py):  *)
(* the image payload decoder, the response image extractor and the        *)
(* per-browser-session history store.                                     *)
(*                                                                         *)
(* Python values are records [t |-> type tag, v |-> sequence of integers]: *)
(*   none       None                       v = << >>                       *)
(*   bytes      bytes                      v = the byte values 0..255      *)
(*   bytearray  bytearray / memoryview     v = the byte values             *)
(*   str        str                        v = the code points             *)
(*   int        any other scalar           v = << n >>                     *)
(*   ref        a composite object         v = << identity >>              *)
(***************************************************************************)
EXTENDS Integers, Sequences, FiniteSets, TLC

VARIABLES
    dec_pc,       \* decoder harness: "input" | "done"
    dec_data,     \* the argument of decode_image_data
    dec_origin,   \* the bytes dec_data was base64-encoded from, or None
    dec_result    \* the outcome of decode_image_data(dec_data)

decVars == <<dec_pc, dec_data, dec_origin, dec_result>>

VARIABLES
    response,        \* the argument of collect_image_bytes
    heap,            \* the response graph: object identity -> composite object
    queue,           \* collect_image_bytes: the work queue
    visited,         \* collect_image_bytes: identities already expanded
    ex_pc,           \* "idle" | "loop" | "done"
    ex_result,       \* the outcome of collect_image_bytes(response)
    ex_popped,       \* history: the values popped, in order
    ex_expanded,     \* history: the identities expanded, in order
    ex_str_decoded   \* history: the strs the string branch handed to the decoder

exVars == <<response, heap, queue, visited, ex_pc, ex_result, ex_popped, ex_expanded,
            ex_str_decoded>>

VARIABLES
    session_state,   \* st.session_state: history, _history_loaded, authenticated,
                     \* _cookies_sync_stage, _cookie_controller
    cookies,         \* the browser's cookies browser_session_id and logged_in
    cookie_lib,      \* whether CookieController could be imported
    files,           \* the files of HISTORY_DIR: name -> content
    hist_dir,        \* whether HISTORY_DIR exists
    uuid_count,      \* how many uuid4 tokens were minted
    page,            \* what the browser shows: "none" | "login" | "main" | "sidebar"
    hs_run,          \* history: what the last script run did
    hs_saved         \* history: name -> the in-memory history persist wrote there

hsVars == <<session_state, cookies, cookie_lib, files, hist_dir, uuid_count, page,
            hs_run, hs_saved>>

VARIABLES
    fn_pc,       \* pure-function harness: "idle" | "input" | the function applied
    fn_input,    \* the argument of the function
    fn_result    \* what the function returned

fnVars == <<fn_pc, fn_input, fn_result>>

vars == <<decVars, exVars, hsVars, fnVars>>

-----------------------------------------------------------------------------
(* Bounds of the model. *)

\* longest str among the configured credentials
MaxCredentialLen == 2

\* longest short prompt handed to the filename harness
MaxPromptLen == 3

\* longest str handed to the decoder harness
MaxStrLen == 4
\* longest bytes value handed to the decoder harness
MaxBytesLen == 3
\* length of the image payloads in the responses
ImageLen == 63
\* longest in-memory history
MaxHistory == 2
\* number of uuid4 tokens a behaviour may mint
MaxUuid == 3

-----------------------------------------------------------------------------
(* Python values. *)

None == [t |-> "none", v |-> << >>]
Bytes(b) == [t |-> "bytes", v |-> b]
ByteArray(b) == [t |-> "bytearray", v |-> b]
Str(s) == [t |-> "str", v |-> s]
Other(n) == [t |-> "int", v |-> <<n>>]
Ref(n) == [t |-> "ref", v |-> <<n>>]

\* Outcome of a call: a returned value, or a raised exception class.
Return(x) == [exc |-> "", val |-> x]
Raise(e) == [exc |-> e, val |-> None]

\* issubclass(e, c) for the exception classes b64decode can raise:
\* binascii.Error derives from ValueError.
IsSubclass(e, c) == e = c \/ (e = "binascii.Error" /\ c = "ValueError")

SeqsUpTo(S, n) == UNION {[1..k -> S] : k \in 0..n}

-----------------------------------------------------------------------------
(* base64, as the standard library computes it (validate=False).           *)

\* The value 0..63 of a code point of the base64 alphabet, 64 for any other.
table_a2b_base64(c) ==
    IF c >= 65 /\ c <= 90 THEN c - 65
    ELSE IF c >= 97 /\ c <= 122 THEN c - 97 + 26
    ELSE IF c >= 48 /\ c <= 57 THEN c - 48 + 52
    ELSE IF c = 43 THEN 62
    ELSE IF c = 47 THEN 63
    ELSE 64

\* The code point of the alphabet character of value 0..63.
table_b2a_base64(n) ==
    IF n <= 25 THEN 65 + n
    ELSE IF n <= 51 THEN 97 + (n - 26)
    ELSE IF n <= 61 THEN 48 + (n - 52)
    ELSE IF n = 62 THEN 43
    ELSE 47

IsPad(c) == c = 61

\* base64.b64encode: every three bytes give four characters; a last group of
\* one or two bytes is padded with = to four characters.
b64encode(b) ==
    LET n == Len(b)
        byte(k) == IF k <= n THEN b[k] ELSE 0
        char(i) ==
            LET g == 3 * ((i - 1) \div 4)
                p == (i - 1) % 4
            IN CASE p = 0 -> table_b2a_base64(byte(g + 1) \div 4)
                 [] p = 1 -> table_b2a_base64((byte(g + 1) % 4) * 16
                                              + (byte(g + 2) \div 16))
                 [] p = 2 -> IF g + 2 > n THEN 61
                             ELSE table_b2a_base64((byte(g + 2) % 16) * 4
                                                   + (byte(g + 3) \div 64))
                 [] p = 3 -> IF g + 3 > n THEN 61
                             ELSE table_b2a_base64(byte(g + 3) % 64)
    IN [i \in 1..(4 * ((n + 2) \div 3)) |-> char(i)]

\* binascii.a2b_base64(s) in non-strict mode.  The library scans s once:
\* a character outside the alphabet is discarded; a data character advances
\* quad_pos (the count of data characters modulo 4) and resets the pad count;
\* a pad met at quad_pos >= 2 is counted and ends the parse once
\* quad_pos + pads >= 4; data characters left over at the end of the input
\* (quad_pos # 0) raise binascii.Error.  The same scan, told by position:

IsData(c) == table_a2b_base64(c) < 64

\* quad_pos when the character at i is read
a2b_quad_pos(s, i) == Cardinality({j \in 1..(i - 1) : IsData(s[j])}) % 4

\* the pads counted up to and including the pad at i
a2b_pads(s, i) ==
    Cardinality({j \in 1..i : IsPad(s[j]) /\ \A k \in j..i : ~IsData(s[k])})

\* the positions at which a pad completes a pad sequence
a2b_stops(s) ==
    {i \in 1..Len(s) :
        /\ IsPad(s[i])
        /\ \E q \in {a2b_quad_pos(s, i)} : q >= 2 /\ q + a2b_pads(s, i) >= 4}

\* the data characters read before the parse ends
a2b_data(s, stops) ==
    IF stops = {} THEN SelectSeq(s, IsData)
    ELSE SelectSeq(SubSeq(s, 1, CHOOSE i \in stops : \A j \in stops : i <= j), IsData)

\* the bytes the data characters d give: three per full quad, and one or two
\* for a last group of two or three characters
a2b_bytes(d) ==
    [k \in 1..(3 * (Len(d) \div 4) + (IF Len(d) % 4 >= 2 THEN (Len(d) % 4) - 1 ELSE 0)) |->
        \* g: the data characters before this byte's quad
        CHOOSE byte \in
            { CASE (k - 1) % 3 = 0 ->
                      (table_a2b_base64(d[g + 1]) * 4
                       + (table_a2b_base64(d[g + 2]) \div 16)) % 256
                [] (k - 1) % 3 = 1 ->
                      ((table_a2b_base64(d[g + 2]) % 16) * 16
                       + (table_a2b_base64(d[g + 3]) \div 4)) % 256
                [] (k - 1) % 3 = 2 ->
                      ((table_a2b_base64(d[g + 3]) % 4) * 64
                       + table_a2b_base64(d[g + 4])) % 256
              : g \in {4 * ((k - 1) \div 3)} } : TRUE]

\* (x \in {e} binds x to the value of e)
a2b_base64(s) ==
    CHOOSE outcome \in
        { IF stops = {} /\ Len(d) % 4 # 0 THEN Raise("binascii.Error")
          ELSE Return(Bytes(a2b_bytes(d)))
          : <<stops, d>> \in {<<st, a2b_data(s, st)>> : st \in {a2b_stops(s)}} } : TRUE

\* b64decode losing the last byte it decoded.
b64decode_dropbyte(data) ==
    CHOOSE outcome \in
        { IF r.exc = "" /\ Len(r.val.v) > 0
          THEN Return(Bytes(SubSeq(r.val.v, 1, Len(r.val.v) - 1)))
          ELSE r
          : r \in {a2b_base64(data)} } : TRUE

\* base64.b64decode(s) of a str: s.encode("ascii") raises ValueError on a
\* non-ASCII character, then binascii.a2b_base64.
b64decode(data) ==
    CHOOSE outcome \in
        { IF \E i \in 1..Len(s) : s[i] > 127 THEN Raise("ValueError")
          ELSE a2b_base64(s)
          : s \in {data} } : TRUE

-----------------------------------------------------------------------------
(* decode_image_data *)

\* a handler that catches TypeError only
caught_typeerror_only(r) ==
    IF r.exc # "" /\ IsSubclass(r.exc, "TypeError") THEN Return(None) ELSE r

\* except (ValueError, TypeError): return None
caught_by_decoder(r) ==
    IF r.exc # "" /\ (IsSubclass(r.exc, "ValueError") \/ IsSubclass(r.exc, "TypeError"))
    THEN Return(None)
    ELSE r

\* a decoder without the isinstance(data, bytes) case
decode_image_data_str_only(data) ==
    IF data.t = "str" THEN caught_by_decoder(b64decode(data.v)) ELSE Return(None)

decode_image_data(data) ==
    IF data.t = "none" THEN Return(None)
    ELSE IF data.t = "bytes" THEN Return(data)
    ELSE IF data.t = "str" THEN caught_by_decoder(b64decode(data.v))
    ELSE Return(None)

-----------------------------------------------------------------------------
(* The response graph.  A composite object is                               *)
(*   [kind |-> "dict",   items |-> key/value pairs in iteration order]      *)
(*   [kind |-> "object", items |-> its attributes, elems |-> its elements,  *)
(*    seq |-> whether it is a collections.abc.Sequence (list, tuple)]       *)

Dict(items) == [kind |-> "dict", items |-> items, elems |-> << >>, seq |-> FALSE]
Obj(items) == [kind |-> "object", items |-> items, elems |-> << >>, seq |-> FALSE]
List(elems) == [kind |-> "object", items |-> << >>, elems |-> elems, seq |-> TRUE]
Item(k, val) == [k |-> k, val |-> val]

IsRef(x) == x.t = "ref"
Node(x) == heap[x.v[1]]

\* isinstance(x, dict)
isinstance_dict(x) == IsRef(x) /\ Node(x).kind = "dict"

HasItem(x, key) == \E i \in 1..Len(Node(x).items) : Node(x).items[i].k = key
ItemOf(x, key) ==
    Node(x).items[CHOOSE i \in 1..Len(Node(x).items) : Node(x).items[i].k = key].val

\* x.get(key) of a dict
dict_get(x, key) == IF HasItem(x, key) THEN ItemOf(x, key) ELSE None

\* getattr(x, name, None): a dict, a list, a str or a bytes value has none of
\* the attributes the extractor asks for.
getattr(x, name) ==
    IF IsRef(x) /\ Node(x).kind = "object" /\ HasItem(x, name)
    THEN ItemOf(x, name)
    ELSE None

\* bool(x)
Truthy(x) ==
    CASE x.t = "none" -> FALSE
      [] x.t \in {"bytes", "bytearray", "str"} -> Len(x.v) > 0
      [] x.t = "int" -> x.v[1] # 0
      [] x.t = "ref" ->
            IF Node(x).kind = "dict" THEN Len(Node(x).items) > 0
            ELSE IF Node(x).seq THEN Len(Node(x).elems) > 0
            ELSE TRUE

\* str.isspace() of one code point
IsSpace(c) == c \in {9, 10, 11, 12, 13, 28, 29, 30, 31, 32, 133, 160}

RECURSIVE lstrip(_)
lstrip(s) == IF Len(s) > 0 /\ IsSpace(s[1]) THEN lstrip(Tail(s)) ELSE s

RECURSIVE rstrip(_)
rstrip(s) ==
    IF Len(s) > 0 /\ IsSpace(s[Len(s)]) THEN rstrip(SubSeq(s, 1, Len(s) - 1)) ELSE s

\* str.strip()
strip(s) == rstrip(lstrip(s))

-----------------------------------------------------------------------------
(* collect_image_bytes *)

B64_MIN_LEN == 80

\* base64_charset: letters, digits, + / = and the line breaks \n \r
base64_charset(c) == table_a2b_base64(c) < 64 \/ IsPad(c) \/ c \in {10, 13}

\* the keys whose value is decoded directly
PayloadKeys == {"data", "image", "blob"}

\* the attribute list without content
CandidateAttrsNoContent ==
    << "candidates", "parts", "generated_content", "contents", "responses",
       "messages", "media", "image", "images" >>

\* the attributes of a generic object that are enqueued, in this order
CandidateAttrs ==
    << "candidates", "content", "parts", "generated_content", "contents",
       "responses", "messages", "media", "image", "images" >>

\* "if decoded is not None" instead of "if decoded"
EndsIfNotNone(decoded) == decoded.exc # "" \/ decoded.val # None

\* a decode result ends the call when it raised or is a non-empty image
Ends(decoded) == decoded.exc # "" \/ Truthy(decoded.val)

\* if decoded: return decoded  (else: return None)
image_or_none(decoded) == IF Ends(decoded) THEN decoded ELSE Return(None)

handle_inline(container) ==
    IF container = None THEN Return(None)
    ELSE IF getattr(container, "data") = None /\ isinstance_dict(container)
    THEN decode_image_data(dict_get(container, "data"))
    ELSE decode_image_data(getattr(container, "data"))

\* data = getattr(file_data, "data", None), else file_data.get("data")
file_data_payload(file_data) ==
    IF getattr(file_data, "data") = None /\ isinstance_dict(file_data)
    THEN dict_get(file_data, "data")
    ELSE getattr(file_data, "data")

\* the part of maybe_file_data after file_data has been looked up
decode_file_data(file_data) ==
    IF Truthy(file_data)
    THEN image_or_none(decode_image_data(file_data_payload(file_data)))
    ELSE Return(None)

maybe_file_data(container) ==
    IF container = None THEN Return(None)
    ELSE IF getattr(container, "file_data") = None /\ isinstance_dict(container)
    THEN decode_file_data(dict_get(container, "file_data"))
    ELSE decode_file_data(getattr(container, "file_data"))

\* The outcome of one pass of the loop body: the call returns `out`, or the
\* loop continues with `push` appended to the queue.
Returns(out) == [done |-> TRUE, out |-> out, push |-> << >>]
Continues(push) == [done |-> FALSE, out |-> Return(None), push |-> push]

\* if decoded: return decoded
return_if(decoded) == IF Ends(decoded) THEN Returns(decoded) ELSE Continues(<< >>)

\* the first of three consecutive steps that returns, else the last
first_done(a, b, c) == IF a.done THEN a ELSE IF b.done THEN b ELSE c

\* decode_image_data(value) for the pairs whose key is a payload key
item_decodes(items) ==
    [i \in 1..Len(items) |->
        IF items[i].k \in PayloadKeys THEN decode_image_data(items[i].val)
        ELSE Return(None)]

\* the loop over the pairs with queue.append(value) left out for the pairs
\* that were decoded directly
scan_items_decoded_once(items, decoded) ==
    IF \E i \in 1..Len(items) : Ends(decoded[i])
    THEN Returns(decoded[CHOOSE i \in 1..Len(items) :
                    Ends(decoded[i]) /\ \A j \in 1..(i - 1) : ~Ends(decoded[j])])
    ELSE Continues([i \in 1..Len(SelectSeq(items, LAMBDA it : it.k \notin PayloadKeys)) |->
                        SelectSeq(items, LAMBDA it : it.k \notin PayloadKeys)[i].val])

\* for key, value in current.items(): direct decode under a payload key,
\* then queue.append(value).  The first pair whose decode ends the call
\* returns; otherwise every value has been appended.
scan_items(items, decoded) ==
    IF \E i \in 1..Len(items) : Ends(decoded[i])
    THEN Returns(decoded[CHOOSE i \in 1..Len(items) :
                    Ends(decoded[i]) /\ \A j \in 1..(i - 1) : ~Ends(decoded[j])])
    ELSE Continues([i \in 1..Len(items) |-> items[i].val])

\* the isinstance(current, dict) branch
expand_dict(current) ==
    first_done(return_if(handle_inline(dict_get(current, "inline_data"))),
               return_if(maybe_file_data(current)),
               scan_items(Node(current).items, item_decodes(Node(current).items)))

\* for attr in (...): value = getattr(current, attr, None); enqueue if present
present_attrs(current, attrs) ==
    SelectSeq([i \in 1..Len(attrs) |-> getattr(current, attrs[i])],
              LAMBDA value : value # None)

\* the generic-object branch
expand_object(current) ==
    first_done(return_if(handle_inline(getattr(current, "inline_data"))),
               return_if(maybe_file_data(current)),
               Continues(present_attrs(current, CandidateAttrs)
                         \o (IF Node(current).seq THEN Node(current).elems ELSE << >>)))

\* len(candidate) >= 80 instead of > 80
is_base64_candidate_ge(candidate) ==
    /\ Len(candidate) >= B64_MIN_LEN
    /\ \A i \in 1..Len(candidate) : base64_charset(candidate[i])

\* len(candidate) > 80 and set(candidate) <= base64_charset
is_base64_candidate(candidate) ==
    /\ Len(candidate) > B64_MIN_LEN
    /\ \A i \in 1..Len(candidate) : base64_charset(candidate[i])

\* the isinstance(current, str) branch: whether the decoder is tried
str_is_candidate(s) == \E candidate \in {strip(s)} : is_base64_candidate(candidate)

\* the isinstance(current, str) branch
expand_str(current) ==
    IF str_is_candidate(current.v)
    THEN return_if(decode_image_data(Str(strip(current.v))))
    ELSE Continues(<< >>)

\* a loop without the visited check
never_visited(current) == FALSE

\* obj_id in visited
already_visited(current) == current.v[1] \in visited

\* one pass of the while loop on the value popped from the queue
loop_body(current) ==
    CASE current.t = "none" -> Continues(<< >>)
      [] current.t \in {"bytes", "bytearray"} ->
            IF Len(current.v) > 0 THEN Returns(Return(Bytes(current.v)))
            ELSE Continues(<< >>)
      [] current.t = "str" -> expand_str(current)
      [] current.t = "int" -> Continues(<< >>)
      [] current.t = "ref" ->
            IF already_visited(current) THEN Continues(<< >>)
            ELSE IF isinstance_dict(current) THEN expand_dict(current)
            ELSE expand_object(current)

\* queue.pop(): the last value instead of the first
queue_pop_last(q) == [current |-> q[Len(q)], rest |-> SubSeq(q, 1, Len(q) - 1)]

\* queue.pop(0)
queue_pop(q) == [current |-> Head(q), rest |-> Tail(q)]

-----------------------------------------------------------------------------
(* Decoder harness: decode_image_data applied to every kind of input, and  *)
(* to the base64 text _serialize_history produces from image bytes.        *)

\* byte values: the extremes and an ASCII letter
ByteVals == {0, 97, 255}
\* code points: Y Q = (base64), ! and newline (ASCII outside the alphabet),
\* e-acute (non-ASCII)
StrChars == {89, 81, 61, 33, 10, 233}

DecodeInputs ==
    {None, Other(7)}
    \cup {Bytes(b) : b \in SeqsUpTo(ByteVals, MaxBytesLen)}
    \cup {ByteArray(b) : b \in SeqsUpTo(ByteVals, 1)}
    \cup {Str(s) : s \in SeqsUpTo(StrChars, MaxStrLen)}

\* the session machine at rest
FnIdle ==
    /\ fn_pc = "idle"
    /\ fn_input = << >>
    /\ fn_result = << >>

HsIdle ==
    /\ session_state = << >>
    /\ cookies = << >>
    /\ cookie_lib = FALSE
    /\ files = << >>
    /\ hist_dir = FALSE
    /\ uuid_count = 0
    /\ page = "none"
    /\ hs_run = << >>
    /\ hs_saved = << >>

\* The extractor at rest: no response, nothing queued.
ExIdle ==
    /\ response = None
    /\ heap = << >>
    /\ queue = << >>
    /\ visited = {}
    /\ ex_pc = "idle"
    /\ ex_result = Return(None)
    /\ ex_popped = << >>
    /\ ex_expanded = << >>
    /\ ex_str_decoded = {}

\* The decoder harness at rest.
DecIdle ==
    /\ dec_pc = "idle"
    /\ dec_data = None
    /\ dec_origin = None
    /\ dec_result = Return(None)

DecInit ==
    /\ dec_pc = "input"
    /\ dec_data \in DecodeInputs
    /\ dec_origin = None
    /\ dec_result = Return(None)
    /\ ExIdle
    /\ HsIdle
    /\ FnIdle

\* base64.b64encode(bytes(image_bytes)).decode("utf-8")
DecEncode ==
    /\ dec_pc = "input"
    /\ dec_origin = None
    /\ dec_data.t \in {"bytes", "bytearray"}
    /\ dec_origin' = Bytes(dec_data.v)
    /\ dec_data' = Str(b64encode(dec_data.v))
    /\ UNCHANGED <<dec_pc, dec_result, exVars, hsVars, fnVars>>

DecDecode ==
    /\ dec_pc = "input"
    /\ dec_result' = decode_image_data(dec_data)
    /\ dec_pc' = "done"
    /\ UNCHANGED <<dec_data, dec_origin, exVars, hsVars, fnVars>>

DecNext == DecEncode \/ DecDecode

SpecDecoder == DecInit /\ [][DecNext]_vars

-----------------------------------------------------------------------------
(* The responses the extractor is run on. *)

\* an image payload of ImageLen bytes; Image(n)[1] = n tells payloads apart
Image(n) == [i \in 1..ImageLen |-> (i * n) % 256]

Rep(c, n) == [i \in 1..n |-> c]

\* "hello"
Hello == Str(<<104, 101, 108, 108, 111>>)

\* the strs of the string branch: at the threshold, above it, above it with a
\* length base64 rejects, with a character outside the charset, wrapped in
\* blanks, holding a line break, and all padding
TestStrs ==
    { Hello,
      Str(Rep(65, B64_MIN_LEN)),
      Str(Rep(65, B64_MIN_LEN + 4)),
      Str(Rep(65, B64_MIN_LEN + 1)),
      Str(Rep(65, B64_MIN_LEN + 2) \o <<33>> \o Rep(65, 2)),
      Str(<<32>> \o Rep(65, B64_MIN_LEN + 4) \o <<9>>),
      Str(<<32, 32>> \o Rep(65, B64_MIN_LEN - 1) \o <<32>>),
      Str(Rep(65, B64_MIN_LEN) \o <<10>> \o Rep(65, 4)),
      Str(Rep(61, B64_MIN_LEN + 4)) }

Kinds == {"dict", "object", "list"}

\* a container of the given kind holding the values vals under the names keys
Container(kind, keys, vals) ==
    IF kind = "list" THEN List(vals)
    ELSE LET items == [i \in 1..Len(vals) |-> Item(keys[i], vals[i])]
         IN IF kind = "dict" THEN Dict(items) ELSE Obj(items)

\* A chain root -> 2 -> 3 -> holder (4) -> payload container (5): each level
\* holds an unrelated sibling and the next level under the name `link`; level
\* 3 may refer back to the root or to itself; the holder carries the payload.
ChainHeap(kinds, holder, link, payload, back, sib) ==
    LET level(i) ==
            Container(kinds[i], <<"text", link>>, <<sib, Ref(i + 1)>>)
        level3 ==
            IF back = 0
            THEN Container(kinds[3], <<"text", link>>, <<sib, Ref(4)>>)
            ELSE Container(kinds[3], <<"text", "contents", link>>,
                           <<sib, Ref(back), Ref(4)>>)
        wrapper(data) ==
            Container(holder, <<"mime_type", "data">>,
                      <<Str(<<112, 110, 103>>), data>>)
        held ==
            CASE payload = "inline_str" ->
                    <<Container(holder, <<"text", "inline_data">>, <<Hello, Ref(5)>>),
                      wrapper(Str(b64encode(Image(1))))>>
              [] payload = "inline_bytes" ->
                    <<Container(holder, <<"text", "inline_data">>, <<Hello, Ref(5)>>),
                      wrapper(Bytes(Image(1)))>>
              [] payload = "file_str" ->
                    <<Container(holder, <<"text", "file_data">>, <<Hello, Ref(5)>>),
                      wrapper(Str(b64encode(Image(1))))>>
              [] payload = "none" ->
                    <<Container(holder, <<"text", "contents">>, <<Hello, Ref(1)>>),
                      wrapper(None)>>
    IN <<level(1), level(2), level3, held[1], held[2]>>

ChainResponses ==
    { [response |-> Ref(1),
       heap |-> ChainHeap(kinds, holder, link, payload, back, sib)] :
        kinds \in [1..3 -> Kinds],
        holder \in {"dict", "object"},
        link \in {"content", "result"},
        payload \in {"inline_str", "inline_bytes", "file_str", "none"},
        back \in {0, 1, 3},
        sib \in {Hello, Other(7)} }

\* The subtrees whose order decides which payload is found first: raw bytes,
\* bytes one level down in a list (6), an inline-data map (7 -> 8), a long
\* base64 str, and a bytearray.
Subtrees ==
    << Bytes(Image(2)), Ref(6), Ref(7), Str(b64encode(Image(4))),
       ByteArray(Image(5)) >>

OrderHeap(kind, keys, vals) ==
    << Container(kind, keys, vals), List(<< >>), List(<< >>), List(<< >>), List(<< >>),
       List(<<Bytes(Image(3))>>),
       Dict(<<Item("inline_data", Ref(8))>>),
       Dict(<<Item("data", Str(b64encode(Image(1))))>>) >>

AttrNames ==
    { <<"candidates", "parts", "images">>,
      <<"images", "parts", "candidates">>,
      <<"image", "extra", "content">> }

OrderResponses ==
    { [response |-> Ref(1),
       heap |-> OrderHeap(kind, keys, <<Subtrees[a], Subtrees[b], Subtrees[c]>>)] :
        kind \in Kinds, keys \in AttrNames,
        a \in 1..Len(Subtrees), b \in 1..Len(Subtrees), c \in 1..Len(Subtrees) }

\* A str as the response itself, or as the only member of a container.
StrResponses ==
    { [response |-> s, heap |-> << >>] : s \in TestStrs \cup {None} }
    \cup { [response |-> Ref(1), heap |-> <<Container(kind, <<"text">>, <<s>>)>>] :
            kind \in Kinds, s \in TestStrs \cup {Bytes(<< >>)} }

\* "YQ==", the base64 text of b"a"
ShortBase64 == Str(<<89, 81, 61, 61>>)

\* A map (1) with two pairs under the names first and last, a file_data map
\* (2), an inline_data container (3) and a list (4) one level down.
MapHeap(holder, first, last, direct, other, file, inline, deep) ==
    << Dict(<<Item(first, direct), Item("file_data", Ref(2)), Item("text", Ref(4)),
              Item("inline_data", Ref(3)), Item(last, other)>>),
       Dict(<<Item("data", file)>>),
       Container(holder, <<"data">>, <<inline>>),
       List(<<deep>>) >>

MapResponses ==
    { [response |-> Ref(1),
       heap |-> MapHeap(holder, names[1], names[2], direct, other, file, inline, deep)] :
        holder \in {"dict", "object"},
        names \in {<<"blob", "data">>, <<"image", "blob">>, <<"label", "data">>},
        direct \in {Hello, Bytes(Image(6))},
        other \in {Hello, ShortBase64, Ref(4)},
        file \in {None, Hello, Str(<<33>>), Bytes(Image(7))},
        inline \in {None, Hello, Bytes(<< >>), Bytes(Image(8))},
        deep \in {None, ByteArray(<< >>), Bytes(Image(9))} }

Responses == ChainResponses \cup OrderResponses \cup StrResponses \cup MapResponses

-----------------------------------------------------------------------------
(* The extractor as a state machine: one action per pass of the loop.      *)

\* visited, queue and the first enqueue of collect_image_bytes(response)
ExInit ==
    /\ \E r \in Responses :
        /\ response = r.response
        /\ heap = r.heap
        /\ queue = IF r.response # None THEN <<r.response>> ELSE << >>
    /\ visited = {}
    /\ ex_pc = "loop"
    /\ ex_result = Return(None)
    /\ ex_popped = << >>
    /\ ex_expanded = << >>
    /\ ex_str_decoded = {}
    /\ DecIdle
    /\ HsIdle
    /\ FnIdle

\* the effect of one pass on the queue and the result
ExPass(current, rest) ==
    \E pass \in {loop_body(current)} :
    /\ ex_popped' = Append(ex_popped, current)
    /\ IF pass.done
       THEN /\ ex_pc' = "done"
            /\ ex_result' = pass.out
            /\ queue' = rest
       ELSE /\ queue' = rest \o pass.push
            /\ UNCHANGED <<ex_pc, ex_result>>

\* a None, bytes, bytearray, str or scalar is popped
ExPopLeaf ==
    /\ ex_pc = "loop"
    /\ queue # << >>
    /\ \E p \in {queue_pop(queue)} :
        /\ ~IsRef(p.current)
        /\ ExPass(p.current, p.rest)
        /\ ex_str_decoded' =
             IF p.current.t = "str" /\ str_is_candidate(p.current.v)
             THEN ex_str_decoded \cup {p.current}
             ELSE ex_str_decoded
    /\ UNCHANGED <<response, heap, visited, ex_expanded, decVars, hsVars, fnVars>>

\* a composite already expanded is popped: if obj_id in visited: continue
ExPopVisited ==
    /\ ex_pc = "loop"
    /\ queue # << >>
    /\ \E p \in {queue_pop(queue)} :
        /\ IsRef(p.current)
        /\ already_visited(p.current)
        /\ ExPass(p.current, p.rest)
    /\ UNCHANGED <<response, heap, visited, ex_expanded, ex_str_decoded, decVars, hsVars, fnVars>>

\* a composite is popped for the first time and expanded
ExPopComposite ==
    /\ ex_pc = "loop"
    /\ queue # << >>
    /\ \E p \in {queue_pop(queue)} :
        /\ IsRef(p.current)
        /\ ~already_visited(p.current)
        /\ visited' = visited \cup {p.current.v[1]}
        /\ ex_expanded' = Append(ex_expanded, p.current.v[1])
        /\ ExPass(p.current, p.rest)
    /\ UNCHANGED <<response, heap, ex_str_decoded, decVars, hsVars, fnVars>>

\* while queue: ... return None
ExExhausted ==
    /\ ex_pc = "loop"
    /\ queue = << >>
    /\ ex_pc' = "done"
    /\ ex_result' = Return(None)
    /\ UNCHANGED <<response, heap, queue, visited, ex_popped, ex_expanded,
                   ex_str_decoded, decVars, hsVars, fnVars>>

ExNext == ExPopLeaf \/ ExPopVisited \/ ExPopComposite \/ ExExhausted

SpecExtractor == ExInit /\ [][ExNext]_vars

\* the loop is a sequential program: it takes its next pass whenever it can
FairSpecExtractor == SpecExtractor /\ WF_vars(ExNext)

-----------------------------------------------------------------------------
(* The session: st.session_state, the browser's cookies, HISTORY_DIR.      *)
(* A function of the program is an operator from a world w (the state the  *)
(* call starts in) and the faults F of the script run to a result          *)
(* [w, val, exc, src]: the world it leaves, the value it returns, and the  *)
(* exception that leaves it with the function that let it out.             *)

\* the calls into the environment that can raise during one script run:
\*   ctor   CookieController()                 get   controller.refresh / get
\*   set    controller.set / remove            io    open, json.load, os.remove
\*   dump   json.dump, after open truncated    mkdir os.makedirs of a missing
\*          the file                                 HISTORY_DIR
FaultKinds == {"ctor", "get", "set", "io", "dump", "mkdir", "upload"}

\* a run meets no fault or one kind of fault
Faults == {{}} \cup {{k} : k \in FaultKinds}

Bool(b) == [t |-> "bool", v |-> <<IF b THEN 1 ELSE 0>>]

\* MODEL_NAME, abbreviated to "g25"
MODEL_NAME == Str(<<103, 50, 53>>)

\* COOKIE_KEY's value "1"
LOGGED_IN == Str(<<49>>)

Ret(w, val) == [w |-> w, val |-> val, exc |-> "", src |-> ""]
Raised(w, e, src) == [w |-> w, val |-> None, exc |-> e, src |-> src]
\* st.stop() and st.rerun() end the script run
Stop(w, src) == Raised(w, "StopException", src)
Rerun(w, src) == Raised(w, "RerunException", src)
\* an exception on its way out through the function src
Through(r, src) == [r EXCEPT !.src = src]

\* the rest of a function, K, applied to the result of a call it made
Then(result, K(_)) == CHOOSE out \in {K(r) : r \in {result}} : TRUE

\* the n-th token of uuid.uuid4().hex
uuid4_hex(n) == <<48 + n>>

\* the world of the variables
World ==
    [ss |-> session_state, cookies |-> cookies, lib |-> cookie_lib, files |-> files,
     dir |-> hist_dir, uuid |-> uuid_count, saved |-> hs_saved,
     run |-> [restored |-> FALSE, restored_key |-> << >>, restored_list |-> << >>,
              inserted |-> FALSE, before |-> << >>, persisted |-> FALSE,
              cleared |-> "", uploaded |-> ""]]

\* _get_cookie_controller that never gives up: a controller whatever happens
get_cookie_controller_always(w, F) ==
    Ret([w EXCEPT !.ss.cookie_controller = TRUE], TRUE)

\* _get_cookie_controller
get_cookie_controller(w, F) ==
    IF ~w.lib THEN Ret(w, FALSE)
    ELSE IF w.ss.cookie_controller THEN Ret(w, TRUE)
    ELSE IF "ctor" \in F THEN Ret(w, FALSE)
    ELSE Ret([w EXCEPT !.ss.cookie_controller = TRUE], TRUE)

\* sync_cookie_controller that asks for a rerun at stage 1 as well
sync_with_rerun_again(c, F) ==
    IF ~c.val THEN Ret(c.w, None)
    ELSE IF c.w.ss.cookies_sync_stage = 0 THEN
        IF "get" \in F THEN Ret(c.w, None)
        ELSE Rerun([c.w EXCEPT !.ss.cookies_sync_stage = 1], "sync_cookie_controller")
    ELSE IF c.w.ss.cookies_sync_stage = 1 THEN
        IF "get" \in F THEN Ret(c.w, None)
        ELSE Rerun([c.w EXCEPT !.ss.cookies_sync_stage = 2], "sync_cookie_controller")
    ELSE Ret(c.w, None)

\* sync_cookie_controller
sync_with(c, F) ==
    IF ~c.val THEN Ret(c.w, None)
    ELSE IF c.w.ss.cookies_sync_stage = 0 THEN
        IF "get" \in F THEN Ret(c.w, None)
        ELSE Rerun([c.w EXCEPT !.ss.cookies_sync_stage = 1], "sync_cookie_controller")
    ELSE IF c.w.ss.cookies_sync_stage = 1 THEN
        IF "get" \in F THEN Ret(c.w, None)
        ELSE Ret([c.w EXCEPT !.ss.cookies_sync_stage = 2], None)
    ELSE Ret(c.w, None)

sync_cookie_controller(w, F) ==
    Then(get_cookie_controller(w, F), LAMBDA c : sync_with(c, F))

\* restore_login_from_cookie
restore_with(c, F) ==
    IF ~c.val THEN Ret(c.w, FALSE)
    ELSE IF "get" \in F THEN Ret(c.w, FALSE)
    ELSE Ret(c.w, c.w.cookies.logged_in = LOGGED_IN)

restore_login_from_cookie(w, F) ==
    Then(get_cookie_controller(w, F), LAMBDA c : restore_with(c, F))

\* persist_login_to_cookie
login_cookie_with(c, F, value) ==
    IF ~c.val THEN Ret(c.w, None)
    ELSE IF "set" \in F THEN Ret(c.w, None)
    ELSE Ret([c.w EXCEPT !.cookies.logged_in = IF value THEN LOGGED_IN ELSE None], None)

persist_login_to_cookie(w, F, value) ==
    Then(get_cookie_controller(w, F), LAMBDA c : login_cookie_with(c, F, value))

\* ch.isalnum() alone
is_safe_char_alnum(c) ==
    \/ c \in (48..57) \cup (65..90) \cup (97..122)
    \/ c \in {170, 178, 179, 181, 185, 186, 188, 189, 190}
    \/ c \in (192..214) \cup (216..246) \cup (248..255)

\* ch.isalnum() or ch in {"-", "_"}
is_safe_char(c) ==
    \/ c \in (48..57) \cup (65..90) \cup (97..122)
    \/ c \in {45, 95}
    \/ c \in {170, 178, 179, 181, 185, 186, 188, 189, 190}
    \/ c \in (192..214) \cup (216..246) \cup (248..255)

\* _get_history_path: the path is modelled by the file name without .json
get_history_path(w, F, session_id) ==
    IF ~w.dir /\ "mkdir" \in F THEN Raised(w, "OSError", "_get_history_path")
    ELSE Ret([w EXCEPT !.dir = TRUE], SelectSeq(session_id.v, is_safe_char))

\* get_browser_session_id
session_id_with(c, F, create) ==
    IF ~c.val THEN Ret(c.w, None)
    ELSE IF "get" \notin F /\ Truthy(c.w.cookies.browser_session_id)
         THEN Ret(c.w, c.w.cookies.browser_session_id)
    ELSE IF ~create THEN Ret(c.w, None)
    ELSE IF "set" \in F THEN Ret([c.w EXCEPT !.uuid = @ + 1], None)
    ELSE Ret([c.w EXCEPT !.uuid = @ + 1,
                         !.cookies.browser_session_id = Str(uuid4_hex(c.w.uuid))],
             Str(uuid4_hex(c.w.uuid)))

get_browser_session_id(w, F, create) ==
    Then(get_cookie_controller(w, F), LAMBDA c : session_id_with(c, F, create))

\* one entry of _serialize_history
serialize_entry(entry) ==
    [dict |-> TRUE, id |-> entry.id, prompt |-> entry.prompt, model |-> entry.model,
     no_text |-> entry.no_text,
     image_b64 |-> IF entry.image_bytes.t \in {"bytes", "bytearray"}
                   THEN Str(b64encode(entry.image_bytes.v))
                   ELSE None]

\* _serialize_history
serialize_history(history) == [i \in 1..Len(history) |-> serialize_entry(history[i])]

\* one entry of _deserialize_history
deserialize_entry(entry) ==
    [id |-> entry.id, prompt |-> entry.prompt, model |-> entry.model,
     no_text |-> entry.no_text,
     image_bytes |-> IF Truthy(entry.image_b64)
                     THEN decode_image_data(entry.image_b64).val
                     ELSE None]

\* _deserialize_history, for a payload whose entries are all dicts
deserialize_history(payload) == [i \in 1..Len(payload) |-> deserialize_entry(payload[i])]

\* the content of a history file: json is "invalid" (json.load raises), "list"
\* (valid JSON, not an object) or "dict"; history_is_list tells whether the
\* object's "history" is a list, entries are its elements. updated_at is
\* written and never read.
FileContent(json, history_is_list, entries) ==
    [json |-> json, history_is_list |-> history_is_list, entries |-> entries]

\* the files with one of them written
WriteFile(fs, name, content) ==
    [n \in DOMAIN fs \cup {name} |-> IF n = name THEN content ELSE fs[n]]

\* the files with one of them removed
RemoveFile(fs, name) == [n \in DOMAIN fs \ {name} |-> fs[n]]

NoHistory == [some |-> FALSE, list |-> << >>]
SomeHistory(h) == [some |-> TRUE, list |-> h]

\* load_history_from_storage
load_payload(w, name) ==
    IF w.files[name].json # "dict" THEN Ret(w, NoHistory)
    ELSE IF ~w.files[name].history_is_list THEN Ret(w, NoHistory)
    ELSE IF \E i \in 1..Len(w.files[name].entries) : ~w.files[name].entries[i].dict
         THEN Raised(w, "AttributeError", "load_history_from_storage")
    ELSE Ret([w EXCEPT !.run.restored = TRUE,
                       !.run.restored_key = name,
                       !.run.restored_list = deserialize_history(w.files[name].entries)],
             SomeHistory(deserialize_history(w.files[name].entries)))

load_with_path(p, F) ==
    IF p.exc # "" THEN Through(p, "load_history_from_storage")
    ELSE IF p.val \notin DOMAIN p.w.files THEN Ret(p.w, NoHistory)
    ELSE IF "io" \in F THEN Ret(p.w, NoHistory)
    ELSE load_payload(p.w, p.val)

load_with_session(s, F) ==
    IF ~Truthy(s.val) THEN Ret(s.w, NoHistory)
    ELSE Then(get_history_path(s.w, F, s.val), LAMBDA p : load_with_path(p, F))

load_history_from_storage(w, F) ==
    Then(get_browser_session_id(w, F, FALSE), LAMBDA s : load_with_session(s, F))

\* persist_history_to_storage
\* persist_history_to_storage writing the newest entry only
persist_with_path_newest(p, F) ==
    IF p.exc # "" THEN Through(p, "persist_history_to_storage")
    ELSE IF "io" \in F THEN Ret(p.w, None)
    ELSE Ret([p.w EXCEPT
                !.files = WriteFile(@, p.val,
                            FileContent("dict", TRUE,
                                        serialize_history(SubSeq(p.w.ss.history, 1, 1)))),
                !.saved = WriteFile(@, p.val, p.w.ss.history),
                !.run.persisted = TRUE], None)

persist_with_path(p, F) ==
    IF p.exc # "" THEN Through(p, "persist_history_to_storage")
    ELSE IF "io" \in F THEN Ret(p.w, None)
    ELSE IF "dump" \in F THEN
        Ret([p.w EXCEPT !.files = WriteFile(@, p.val, FileContent("invalid", FALSE, << >>)),
                        !.saved = RemoveFile(@, p.val)], None)
    ELSE Ret([p.w EXCEPT
                !.files = WriteFile(@, p.val,
                            FileContent("dict", TRUE, serialize_history(p.w.ss.history))),
                !.saved = WriteFile(@, p.val, p.w.ss.history),
                !.run.persisted = TRUE], None)

persist_with_session(s, F) ==
    IF ~Truthy(s.val) THEN Ret(s.w, None)
    ELSE Then(get_history_path(s.w, F, s.val), LAMBDA p : persist_with_path(p, F))

persist_history_to_storage(w, F) ==
    Then(get_browser_session_id(w, F, TRUE), LAMBDA s : persist_with_session(s, F))

\* clear_history_storage that leaves the file where it is
clear_with_path_keep(p, F) ==
    IF p.exc # "" THEN Through(p, "clear_history_storage")
    ELSE Ret([p.w EXCEPT !.run.cleared = "removed"], None)

\* clear_history_storage
clear_with_path(p, F) ==
    IF p.exc # "" THEN Through(p, "clear_history_storage")
    ELSE IF p.val \notin DOMAIN p.w.files
         THEN Ret([p.w EXCEPT !.run.cleared = "absent"], None)
    ELSE IF "io" \in F THEN Ret([p.w EXCEPT !.run.cleared = "failed"], None)
    ELSE Ret([p.w EXCEPT !.files = RemoveFile(@, p.val),
                         !.saved = RemoveFile(@, p.val),
                         !.run.cleared = "removed"], None)

clear_with_session(s, F) ==
    IF ~Truthy(s.val) THEN Ret([s.w EXCEPT !.run.cleared = "no_session"], None)
    ELSE Then(get_history_path(s.w, F, s.val), LAMBDA p : clear_with_path(p, F))

clear_history_storage(w, F) ==
    Then(get_browser_session_id(w, F, FALSE), LAMBDA s : clear_with_session(s, F))

\* logout
logout_cleared(r) ==
    IF r.exc # "" THEN r
    ELSE Rerun([r.w EXCEPT !.ss.history = << >>, !.ss.has_history = TRUE], "logout")

logout_signed_out(r, F) ==
    Then(clear_history_storage(r.w, F), LAMBDA cleared : logout_cleared(cleared))

logout(w, F) ==
    Then(persist_login_to_cookie([w EXCEPT !.ss.authenticated = FALSE], F, FALSE),
         LAMBDA r : logout_signed_out(r, F))

\* init_history
init_mark_loaded(c, session_id) ==
    IF session_id # None \/ ~c.val
    THEN Ret([c.w EXCEPT !.ss.history_loaded = TRUE], None)
    ELSE Ret(c.w, None)

init_not_restored(s, F) ==
    Then(get_cookie_controller(s.w, F), LAMBDA c : init_mark_loaded(c, s.val))

init_restored(r, F) ==
    IF r.exc # "" THEN r
    ELSE IF r.val.some
         THEN Ret([r.w EXCEPT !.ss.history = r.val.list, !.ss.history_loaded = TRUE], None)
    ELSE Then(get_browser_session_id(r.w, F, FALSE), LAMBDA s : init_not_restored(s, F))

\* init_history without the test of _history_loaded
init_history_reload(w, F) ==
    Then(load_history_from_storage(w, F), LAMBDA r : init_restored(r, F))

init_history_set(w, F) ==
    IF w.ss.history_loaded THEN Ret(w, None)
    ELSE Then(load_history_from_storage(w, F), LAMBDA r : init_restored(r, F))

init_history(w, F) ==
    init_history_set(
        IF w.ss.has_history THEN w
        ELSE [w EXCEPT !.ss.history = << >>, !.ss.has_history = TRUE], F)

\* require_login; the credentials always hold a pair (the configured one or
\* the fallback), login_ok tells whether the submitted pair equals it
login_restored(r, F) ==
    IF r.val THEN get_browser_session_id([r.w EXCEPT !.ss.authenticated = TRUE], F, TRUE)
    ELSE r

login_accepted(r, F) ==
    Then(get_browser_session_id(r.w, F, TRUE), LAMBDA s : Rerun(s.w, "require_login"))

\* require_login accepting whatever the form submits
login_form_any(r, F, inp) ==
    IF r.w.ss.authenticated THEN Ret(r.w, None)
    ELSE IF inp.button = "login" THEN
        Then(persist_login_to_cookie([r.w EXCEPT !.ss.authenticated = TRUE], F, TRUE),
             LAMBDA c : login_accepted(c, F))
    ELSE Stop(r.w, "require_login")

login_form(r, F, inp) ==
    IF r.w.ss.authenticated THEN Ret(r.w, None)
    ELSE IF inp.button = "login" /\ inp.login_ok THEN
        Then(persist_login_to_cookie([r.w EXCEPT !.ss.authenticated = TRUE], F, TRUE),
             LAMBDA c : login_accepted(c, F))
    ELSE Stop(r.w, "require_login")

login_checked(r, F, inp) ==
    Then(login_restored(r, F), LAMBDA restored : login_form(restored, F, inp))

require_login(w, F, inp) ==
    IF w.ss.authenticated THEN Ret(w, None)
    ELSE Then(restore_login_from_cookie(w, F), LAMBDA r : login_checked(r, F, inp))

\* history.insert(0, entry) with the entry of main
history_append(history, entry) == history \o <<entry>>

history_insert(history, entry) == <<entry>> \o history

\* the Generate branch of main; inp.outcome tells how far the run gets before
\* the response is there, inp.image is what collect_image_bytes returns
generate_entry(w, inp) ==
    [id |-> Str(<<105, 109, 103, 95>> \o uuid4_hex(w.uuid)),
     image_bytes |-> inp.image,
     prompt |-> Str(strip(inp.prompt)),
     model |-> MODEL_NAME,
     no_text |-> Bool(TRUE)]

\* upload_image_to_gcs: whatever fails on the way to the bucket is reported
\* and (None, None) returned
upload_image_to_gcs(w, F, image_bytes) ==
    IF ~Truthy(image_bytes) THEN Ret(w, None)
    ELSE IF "upload" \in F THEN Ret([w EXCEPT !.run.uploaded = "failed"], None)
    ELSE Ret([w EXCEPT !.run.uploaded = "ok"], Bool(TRUE))

generate_insert(w, F, inp) ==
    persist_history_to_storage(
        [w EXCEPT !.ss.history = history_insert(@, generate_entry(w, inp)),
                  !.uuid = @ + 1,
                  !.run.inserted = TRUE,
                  !.run.before = w.ss.history], F)

\* the Generate branch with the test of what collect_image_bytes returned
\* moved behind the insert
generate_stopped_late(g, inp) ==
    IF g.exc = "" /\ ~Truthy(inp.image) THEN Stop(g.w, "main") ELSE g

generate_checked_late(w, F, inp) ==
    IF inp.outcome = "no_api_key" THEN Stop(w, "main")
    ELSE IF strip(inp.prompt) = << >> THEN Stop(w, "main")
    ELSE IF inp.outcome \in {"no_reference", "quota", "call_error", "error"}
         THEN Stop(w, "main")
    ELSE Then(generate_insert(w, F, inp), LAMBDA g : generate_stopped_late(g, inp))

generate(w, F, inp) ==
    IF inp.outcome = "no_api_key" THEN Stop(w, "main")
    ELSE IF strip(inp.prompt) = << >> THEN Stop(w, "main")
    ELSE IF inp.outcome \in {"no_reference", "quota", "call_error", "error"}
         THEN Stop(w, "main")
    ELSE IF ~Truthy(inp.image) THEN Stop(w, "main")
    ELSE Then(upload_image_to_gcs(w, F, inp.image),
              LAMBDA u : generate_insert(u.w, F, inp))

\* render_history giving every entry with an image a new id
needs_id_always(entry) == Truthy(entry.image_bytes)

\* render_history: an entry with an image whose id is not a str gets a new id
needs_id(entry) == Truthy(entry.image_bytes) /\ entry.id.t # "str"

render_history(w) ==
    Ret([w EXCEPT
            !.ss.history =
                [i \in 1..Len(w.ss.history) |->
                    IF needs_id(w.ss.history[i])
                    THEN [w.ss.history[i] EXCEPT !.id =
                            Str(<<105, 109, 103, 95>>
                                \o uuid4_hex(w.uuid
                                     + Cardinality({j \in 1..(i - 1) :
                                                      needs_id(w.ss.history[j])})))]
                    ELSE w.ss.history[i]],
            !.uuid = @ + Cardinality({j \in 1..Len(w.ss.history) :
                                        needs_id(w.ss.history[j])})],
        None)

\* main
main_generated(r) == IF r.exc # "" THEN r ELSE render_history(r.w)

main_logged_in(r, F, inp) ==
    IF r.exc # "" THEN r
    ELSE IF inp.button = "logout" THEN logout(r.w, F)
    ELSE IF inp.button = "generate"
         THEN Then(generate(r.w, F, inp), LAMBDA g : main_generated(g))
    ELSE render_history(r.w)

main_initialised(r, F, inp) ==
    IF r.exc # "" THEN r
    ELSE Then(require_login(r.w, F, inp), LAMBDA l : main_logged_in(l, F, inp))

main_synced(r, F, inp) ==
    IF r.exc # "" THEN r
    ELSE Then(init_history(r.w, F), LAMBDA i : main_initialised(i, F, inp))

main(w, F, inp) ==
    Then(sync_cookie_controller(w, F), LAMBDA s : main_synced(s, F, inp))

\* what the browser shows after a run: the login form, the whole page, the
\* sidebar only (the run raised after it), or nothing (a rerun is under way,
\* or the run raised before it drew anything)
page_after(r) ==
    IF r.exc = "" THEN "main"
    ELSE IF r.exc = "RerunException" THEN "none"
    ELSE IF r.exc = "StopException"
         THEN (IF r.src = "require_login" THEN "login" ELSE "main")
    ELSE IF r.src = "clear_history_storage" THEN "sidebar"
    ELSE IF r.src = "persist_history_to_storage" THEN "main"
    ELSE "none"

-----------------------------------------------------------------------------
(* The session as a state machine: one action per script run of main, by    *)
(* the button that started it, and the browser and the disk around it.      *)

\* the session cookies a browser arrives with: none, "a1", "a/1"
CookieIds == {None, Str(<<97, 49>>), Str(<<97, 47, 49>>)}

\* the name of the history file of the cookies "a1" and "a/1"
LegacyName == <<97, 49>>

StoredEntry(id, image_b64) ==
    [dict |-> TRUE, id |-> id, prompt |-> Str(<<112>>), model |-> MODEL_NAME,
     no_text |-> Bool(TRUE), image_b64 |-> image_b64]

\* an element of "history" that is not an object
NotAnEntry ==
    [dict |-> FALSE, id |-> None, prompt |-> None, model |-> None, no_text |-> None,
     image_b64 |-> None]

\* the records a session can find on disk: unreadable JSON, JSON of another
\* shape, and lists of entries with an image, without one, with one base64
\* decodes to nothing, without an id, and with an element that is no entry
LegacyContents ==
    { FileContent("invalid", FALSE, << >>),
      FileContent("list", FALSE, << >>),
      FileContent("dict", FALSE, << >>),
      FileContent("dict", TRUE,
          << StoredEntry(Str(<<120>>), Str(b64encode(<<7, 8>>))),
             StoredEntry(Str(<<121>>), None) >>),
      FileContent("dict", TRUE, << StoredEntry(Str(<<122>>), Str(<<33>>)) >>),
      FileContent("dict", TRUE, << StoredEntry(None, Str(b64encode(<<9>>))) >>),
      FileContent("dict", TRUE, << NotAnEntry >>) }

NoFiles == << >>

\* the prompts typed: " c" and a blank one
Prompts == {<<32, 99>>, <<32>>}

\* what collect_image_bytes returns: None or non-empty bytes
Images == {None, Bytes(<<1>>)}

Input(button, login_ok, outcome, prompt, image) ==
    [button |-> button, login_ok |-> login_ok, outcome |-> outcome, prompt |-> prompt,
     image |-> image]

GenerateInputs ==
    {Input("generate", FALSE, o, <<32, 99>>, Bytes(<<1>>)) :
        o \in {"no_api_key", "no_reference", "quota", "call_error", "error"}}
    \cup {Input("generate", FALSE, "response", p, i) : p \in Prompts, i \in Images}

\* st.session_state of a new browser session
FreshSession ==
    [has_history |-> FALSE, history |-> << >>, history_loaded |-> FALSE,
     authenticated |-> FALSE, cookies_sync_stage |-> 0, cookie_controller |-> FALSE]

LastRun(op, r) ==
    [op |-> op, exc |-> r.exc, src |-> r.src, restored |-> r.w.run.restored,
     restored_key |-> r.w.run.restored_key, restored_list |-> r.w.run.restored_list,
     inserted |-> r.w.run.inserted, before |-> r.w.run.before,
     persisted |-> r.w.run.persisted, cleared |-> r.w.run.cleared,
     uploaded |-> r.w.run.uploaded]

HsInit ==
    /\ session_state = FreshSession
    /\ cookies \in [browser_session_id : CookieIds, logged_in : {None, LOGGED_IN}]
    /\ cookie_lib \in BOOLEAN
    /\ files \in {NoFiles} \cup {WriteFile(NoFiles, LegacyName, c) : c \in LegacyContents}
    /\ hist_dir \in (IF files = NoFiles THEN BOOLEAN ELSE {TRUE})
    /\ uuid_count = 0
    /\ page = "none"
    /\ hs_saved = NoFiles
    /\ hs_run = [op |-> "init", exc |-> "", src |-> "", restored |-> FALSE,
                 restored_key |-> << >>, restored_list |-> << >>, inserted |-> FALSE,
                 before |-> << >>, persisted |-> FALSE, cleared |-> "", uploaded |-> ""]
    /\ DecIdle
    /\ ExIdle
    /\ FnIdle

\* one script run of main
Run(inp) ==
    \E F \in Faults :
        \E r \in {main(World, F, inp)} :
            /\ r.w.uuid <= MaxUuid
            /\ Len(r.w.ss.history) <= MaxHistory
            /\ session_state' = r.w.ss
            /\ cookies' = r.w.cookies
            /\ files' = r.w.files
            /\ hist_dir' = r.w.dir
            /\ uuid_count' = r.w.uuid
            /\ hs_saved' = r.w.saved
            /\ hs_run' = LastRun(inp.button, r)
            /\ page' = page_after(r)
            /\ UNCHANGED <<cookie_lib, decVars, exVars, fnVars>>

\* the page is opened, or rerun without a button
MainView ==
    /\ uuid_count <= MaxUuid
    /\ Run(Input("none", FALSE, "", << >>, None))

\* the login form is submitted
MainLogin ==
    /\ page = "login"
    /\ \E login_ok \in BOOLEAN : Run(Input("login", login_ok, "", << >>, None))

\* the logout button of the sidebar
MainLogout ==
    /\ page \in {"main", "sidebar"}
    /\ Run(Input("logout", FALSE, "", << >>, None))

\* the Generate button
MainGenerate ==
    /\ page = "main"
    /\ \E inp \in GenerateInputs : Run(inp)

\* the browser opens the app anew: st.session_state starts over, the cookies
\* and the files stay
BrowserReload ==
    /\ session_state # FreshSession
    /\ session_state' = FreshSession
    /\ page' = "none"
    /\ hs_run' = [hs_run EXCEPT !.op = "reload", !.exc = "", !.src = "",
                               !.restored = FALSE, !.restored_key = << >>,
                               !.restored_list = << >>, !.inserted = FALSE,
                               !.before = << >>, !.persisted = FALSE,
                               !.cleared = "", !.uploaded = ""]
    /\ UNCHANGED <<cookies, cookie_lib, files, hist_dir, uuid_count, hs_saved,
                   decVars, exVars, fnVars>>

\* the temporary directory is cleaned: HISTORY_DIR and its files are gone
TmpCleaned ==
    /\ hist_dir
    /\ files' = NoFiles
    /\ hist_dir' = FALSE
    /\ hs_saved' = NoFiles
    /\ hs_run' = [hs_run EXCEPT !.op = "cleaned", !.exc = "", !.src = "",
                               !.restored = FALSE, !.restored_key = << >>,
                               !.restored_list = << >>, !.inserted = FALSE,
                               !.before = << >>, !.persisted = FALSE,
                               !.cleared = "", !.uploaded = ""]
    /\ UNCHANGED <<session_state, cookies, cookie_lib, uuid_count, page,
                   decVars, exVars, fnVars>>

Next == MainView \/ MainLogin \/ MainLogout \/ MainGenerate \/ BrowserReload \/ TmpCleaned

Spec == HsInit /\ [][Next]_vars

-----------------------------------------------------------------------------
(* sanitize_filename_component and build_prompt_based_filename *)

\* max_length of sanitize_filename_component
max_length == 80

\* \ / : * ? " < > |
path_unsafe == {92, 47, 58, 42, 63, 34, 60, 62, 124}

\* "-n-"
newline_marker == <<45, 110, 45>>

\* "prompt"
prompt_literal == <<112, 114, 111, 109, 112, 116>>

\* what one character of the text appends to sanitized_chars
sanitized_char(c) ==
    IF c \in {10, 13} THEN newline_marker
    ELSE IF c < 32 THEN << >>
    ELSE IF c \in path_unsafe THEN << >>
    ELSE IF IsSpace(c) THEN <<95>>
    ELSE <<c>>

\* "".join(sanitized_chars) for text[lo..hi]
RECURSIVE sanitized_join(_, _, _)
sanitized_join(text, lo, hi) ==
    IF lo > hi THEN << >>
    ELSE IF lo = hi THEN sanitized_char(text[lo])
    ELSE sanitized_join(text, lo, (lo + hi) \div 2)
         \o sanitized_join(text, (lo + hi) \div 2 + 1, hi)

\* s.lstrip("_"): only the leading "_" go
strip_underscores_left(s) ==
    IF \A i \in 1..Len(s) : s[i] = 95 THEN << >>
    ELSE SubSeq(s,
                CHOOSE i \in 1..Len(s) : s[i] # 95 /\ \A j \in 1..(i - 1) : s[j] = 95,
                Len(s))

\* s.strip("_")
strip_underscores(s) ==
    IF \A i \in 1..Len(s) : s[i] = 95 THEN << >>
    ELSE SubSeq(s,
                CHOOSE i \in 1..Len(s) : s[i] # 95 /\ \A j \in 1..(i - 1) : s[j] = 95,
                CHOOSE i \in 1..Len(s) : s[i] # 95 /\ \A j \in (i + 1)..Len(s) : s[j] = 95)

\* the end of sanitize_filename_component: the fallback and the cut
sanitized_cut(sanitized, limit) ==
    IF sanitized = << >> THEN
        (IF Len(prompt_literal) > limit THEN SubSeq(prompt_literal, 1, limit)
         ELSE prompt_literal)
    ELSE IF Len(sanitized) > limit THEN SubSeq(sanitized, 1, limit)
    ELSE sanitized

\* sanitize_filename_component(value, max_length) on the code points of value
sanitize_filename_component(value, limit) ==
    Then(strip_underscores(sanitized_join(value, 1, Len(value))),
         LAMBDA sanitized : sanitized_cut(sanitized, limit))

\* "user01_"
filename_prefix == <<117, 115, 101, 114, 48, 49, 95>>

\* ".png"
filename_extension == <<46, 112, 110, 103>>

\* build_prompt_based_filename(prompt_text) with the token uuid4 gives
build_prompt_based_filename(prompt_text, unique_suffix) ==
    filename_prefix
    \o sanitize_filename_component(
            IF prompt_text = << >> THEN prompt_literal ELSE prompt_text, max_length)
    \o <<95>> \o unique_suffix \o filename_extension

\* the characters of the prompts: a, _, space, no-break space, tab, unit
\* separator, line feed, carriage return, /, delete
PromptChars == {97, 95, 32, 160, 9, 31, 10, 13, 47, 127}

\* the prompts: short ones, and the short ones after enough letters to reach
\* the cut
FilenamePrompts ==
    SeqsUpTo(PromptChars, MaxPromptLen)
    \cup {Rep(97, max_length - 2) \o s : s \in SeqsUpTo(PromptChars, MaxPromptLen)}

FnInit ==
    /\ fn_pc = "input"
    /\ fn_input \in FilenamePrompts
    /\ fn_result = << >>
    /\ DecIdle
    /\ ExIdle
    /\ HsIdle

\* sanitize_filename_component(fn_input)
FnSanitize ==
    /\ fn_pc = "input"
    /\ fn_pc' = "sanitized"
    /\ fn_result' = sanitize_filename_component(fn_input, max_length)
    /\ UNCHANGED <<fn_input, decVars, exVars, hsVars>>

\* build_prompt_based_filename(fn_input)
FnBuild ==
    /\ fn_pc = "input"
    /\ fn_pc' = "built"
    /\ \E n \in 0..1 : fn_result' = build_prompt_based_filename(fn_input, uuid4_hex(n))
    /\ UNCHANGED <<fn_input, decVars, exVars, hsVars>>

FnNext == FnSanitize \/ FnBuild

SpecFilename == FnInit /\ [][FnNext]_vars

-----------------------------------------------------------------------------
(* get_configured_auth_credentials *)

\* "mezamashi"
mezamashi == Str(<<109, 101, 122, 97, 109, 97, 115, 104, 105>>)

\* str(value) of a str or of a one-digit int
py_str(value) == IF value.t = "str" THEN value ELSE Str(<<48 + value.v[1]>>)

\* a or b
py_or(a, b) == IF Truthy(a) THEN a ELSE b

\* _normalize_credential that does not trim
normalize_credential_untrimmed(value) ==
    IF value.t = "str" /\ strip(value.v) # << >> THEN value ELSE None

\* _normalize_credential
normalize_credential(value) ==
    IF value.t = "str" /\ strip(value.v) # << >> THEN Str(strip(value.v)) ELSE None

\* get_secret_value(key); config.secrets tells whether st.secrets can be read,
\* config.top holds the top-level secrets, None where there is none
get_secret_value(config, key) ==
    IF ~config.secrets THEN None ELSE config.top[key]

\* _extract_credential(container, keys): the first value that is not None
extract_credential(container, keys) ==
    IF \A i \in 1..Len(keys) : container[keys[i]] = None THEN None
    ELSE container[keys[CHOOSE i \in 1..Len(keys) :
                            /\ container[keys[i]] # None
                            /\ \A j \in 1..(i - 1) : container[keys[j]] = None]]

username_keys == <<"username", "id", "user", "name">>

password_keys == <<"password", "pass", "pwd">>

\* the username or password that get_secret_auth_credentials finds: in the
\* auth section, or else among the top-level secrets
secret_credential(config, keys, first, second) ==
    Then(IF config.has_auth THEN extract_credential(config.auth, keys) ELSE None,
         LAMBDA found :
            IF found = None
            THEN py_or(get_secret_value(config, first), get_secret_value(config, second))
            ELSE found)

normalized_credential(value) ==
    IF value # None THEN normalize_credential(py_str(value)) ELSE None

\* get_secret_auth_credentials
get_secret_auth_credentials(config) ==
    IF ~config.secrets THEN <<None, None>>
    ELSE <<normalized_credential(secret_credential(config, username_keys, "USERNAME", "ID")),
           normalized_credential(secret_credential(config, password_keys, "PASSWORD", "PASS"))>>

\* get_configured_auth_credentials of app.py
get_configured_auth_credentials(config) ==
    Then(get_secret_auth_credentials(config),
         LAMBDA secret : IF Truthy(secret[1]) /\ Truthy(secret[2]) THEN secret
                         ELSE <<mezamashi, mezamashi>>)

\* BasicSetting()
default_container == [default_username |-> mezamashi, default_password |-> mezamashi]

\* BasicSetting.get_configured_auth_credentials
BasicSetting_get_configured_auth_credentials(self, config) ==
    Then(get_secret_auth_credentials(config),
         LAMBDA secret : IF Truthy(secret[1]) /\ Truthy(secret[2]) THEN secret
                         ELSE <<self.default_username, self.default_password>>)

\* the values of the two secrets the harness varies most: none, an int, and
\* the strs of spaces and letters
CredentialValues ==
    {None, Other(0)} \cup {Str(v) : v \in SeqsUpTo({32, 117}, MaxCredentialLen)}

\* the values of the other secrets
OtherCredentialValues == {None, Str(<<32>>), Str(<<32, 119>>)}

NoAuthSection ==
    [username |-> None, id |-> None, user |-> None, name |-> None,
     password |-> None, pass |-> None, pwd |-> None]

AuthSections ==
    {[NoAuthSection EXCEPT !.username = u, !.name = n, !.password = p, !.pwd = w] :
        u \in CredentialValues, p \in CredentialValues,
        n \in {None, Str(<<118>>)}, w \in {None, Str(<<118>>)}}

TopSecrets ==
    [USERNAME : OtherCredentialValues, ID : {None, Str(<<120>>)},
     PASSWORD : OtherCredentialValues, PASS : {None, Str(<<120>>)}]

\* the configurations: no secrets at all, top-level secrets only, and an
\* auth section next to top-level secrets
Configurations ==
    {[secrets |-> FALSE, has_auth |-> FALSE, auth |-> NoAuthSection,
      top |-> [USERNAME |-> None, ID |-> None, PASSWORD |-> None, PASS |-> None]]}
    \cup {[secrets |-> TRUE, has_auth |-> FALSE, auth |-> NoAuthSection, top |-> t] :
            t \in TopSecrets}
    \cup {[secrets |-> TRUE, has_auth |-> TRUE, auth |-> a, top |-> t] :
            a \in AuthSections, t \in TopSecrets}

CredInit ==
    /\ fn_pc = "input"
    /\ fn_input \in Configurations
    /\ fn_result = << >>
    /\ DecIdle
    /\ ExIdle
    /\ HsIdle

\* get_configured_auth_credentials() of app.py
CredApp ==
    /\ fn_pc = "input"
    /\ fn_pc' = "app"
    /\ fn_result' = get_configured_auth_credentials(fn_input)
    /\ UNCHANGED <<fn_input, decVars, exVars, hsVars>>

\* get_configured_auth_credentials() of basic_setting.py
CredBasicSetting ==
    /\ fn_pc = "input"
    /\ fn_pc' = "basic_setting"
    /\ fn_result' = BasicSetting_get_configured_auth_credentials(default_container, fn_input)
    /\ UNCHANGED <<fn_input, decVars, exVars, hsVars>>

CredNext == CredApp \/ CredBasicSetting

SpecCredentials == CredInit /\ [][CredNext]_vars

-----------------------------------------------------------------------------
(* Claims about the decoder. *)

\* A str is valid (canonical) base64: only alphabet characters, a length
\* that is a multiple of four, and at most two pad characters at the end.
ValidBase64(s) ==
    /\ Len(s) % 4 = 0
    /\ \A i \in 1..Len(s) :
        \/ table_a2b_base64(s[i]) < 64
        \/ /\ IsPad(s[i])
           /\ i >= Len(s) - 1
           /\ \A j \in i..Len(s) : IsPad(s[j])

\* C1: decode_image_data never raises; None gives None, a bytes value is
\* returned unchanged, and a value that is neither bytes nor str gives None.
C1_DecodeNeverRaises ==
    dec_pc = "done" =>
        /\ dec_result.exc = ""
        /\ dec_data.t = "none" => dec_result.val = None
        /\ dec_data.t = "bytes" => dec_result.val = dec_data
        /\ dec_data.t \notin {"bytes", "str"} => dec_result.val = None

\* C1 witness: a str on which b64decode raises was decoded to None.
C1_Witness ==
    /\ dec_pc = "done"
    /\ dec_data.t = "str"
    /\ b64decode(dec_data.v).exc # ""
    /\ dec_result = Return(None)

\* C2: decoding the standard base64 encoding of b returns exactly b.
C2_RoundTrip ==
    (dec_pc = "done" /\ dec_origin # None) => dec_result = Return(dec_origin)

\* C2 witness: a three-byte and a one-byte (padded) value made the round trip.
C2_Witness ==
    /\ dec_pc = "done"
    /\ dec_origin # None
    /\ Len(dec_origin.v) = 1
    /\ dec_data = Str(<<89, 81, 61, 61>>)
    /\ dec_result.val = Bytes(<<97>>)

\* C3 (as claimed): every str that is not valid base64 decodes to None.
C3_MalformedGivesNone ==
    (dec_pc = "done" /\ dec_data.t = "str" /\ ~ValidBase64(dec_data.v))
        => dec_result = Return(None)

-----------------------------------------------------------------------------
(* Claims about the extractor. *)

\* the values a composite holds: its pairs or attributes, then its elements
ValuesOf(n) ==
    {heap[n].items[i].val : i \in 1..Len(heap[n].items)}
    \cup {heap[n].elems[i] : i \in 1..Len(heap[n].elems)}

\* an upper bound on the values the expansion of n enqueues
Degree(n) == Len(heap[n].items) + Len(heap[n].elems)

RECURSIVE SumDegrees(_)
SumDegrees(n) == IF n = 0 THEN 0 ELSE Degree(n) + SumDegrees(n - 1)

\* a composite was popped a second time (the graph has a cycle or a shared node)
PoppedTwice ==
    \E i, j \in 1..Len(ex_popped) : i < j /\ IsRef(ex_popped[i]) /\ ex_popped[i] = ex_popped[j]

\* C4: collect_image_bytes terminates on every finite response graph, cyclic
\* ones included: no composite is expanded twice, the passes of the loop are
\* bounded by the size of the graph, the loop can always take its next pass
\* until it returns, and it returns a non-empty image or None without raising.
C4_TerminatesOnCycles ==
    /\ \A i, j \in 1..Len(ex_expanded) : ex_expanded[i] = ex_expanded[j] => i = j
    /\ Len(ex_popped) <= 1 + SumDegrees(Len(heap))
    /\ ex_pc = "loop" => ENABLED ExNext
    /\ ex_pc = "done" =>
        /\ ex_result.exc = ""
        /\ \/ ex_result.val = None
           \/ ex_result.val.t = "bytes" /\ Len(ex_result.val.v) > 0

\* C4 witness: a graph whose level 3 refers back to the root was searched to
\* the end and gave None.
C4_Witness ==
    /\ ex_pc = "done"
    /\ PoppedTwice
    /\ queue = << >>
    /\ ex_result = Return(None)

\* C4, as a liveness property of the fair loop: the call returns.
C4_EventuallyReturns == <>(ex_pc = "done")

\* --- C5 ---

\* the composites reachable from the response over at most k references
RECURSIVE Reach(_)
Reach(k) ==
    IF k = 0 THEN {response.v[1]}
    ELSE Reach(k - 1)
         \cup {v.v[1] : v \in {w \in UNION {ValuesOf(n) : n \in Reach(k - 1)} : IsRef(w)}}

\* the references the extractor follows out of a composite, as the claim
\* lists them: every value of a map, the listed attributes of an object, the
\* elements of a sequence
FollowedValues(n) ==
    IF heap[n].kind = "dict" THEN ValuesOf(n)
    ELSE {heap[n].items[i].val : i \in {j \in 1..Len(heap[n].items) :
                heap[n].items[j].k \in
                    {"candidates", "content", "parts", "generated_content", "contents",
                     "responses", "messages", "media", "image", "images"}}}
         \cup (IF heap[n].seq THEN {heap[n].elems[i] : i \in 1..Len(heap[n].elems)} ELSE {})

RECURSIVE FollowedReach(_)
FollowedReach(k) ==
    IF k = 0 THEN {response.v[1]}
    ELSE FollowedReach(k - 1)
         \cup {v.v[1] : v \in {w \in UNION {FollowedValues(n) : n \in FollowedReach(k - 1)} :
                                IsRef(w)}}

\* a value that is an image payload on its own: non-empty binary data, or a
\* str long enough to be taken for base64
ImageLike(v) ==
    \/ v.t \in {"bytes", "bytearray"} /\ Len(v.v) > 0
    \/ v.t = "str" /\ Len(v.v) > B64_MIN_LEN

\* holder h carries the only inline-data field of the response, three levels
\* below the root; its container c holds valid, non-empty base64 under data;
\* no other field of the response is named as a payload or holds one
OnlyInlineData(h, c) ==
    /\ IsRef(response)
    /\ HasItem(Ref(h), "inline_data")
    /\ ItemOf(Ref(h), "inline_data") = Ref(c)
    /\ HasItem(Ref(c), "data")
    /\ ItemOf(Ref(c), "data").t = "str"
    /\ ValidBase64(ItemOf(Ref(c), "data").v)
    /\ Len(ItemOf(Ref(c), "data").v) > 0
    /\ h \in Reach(3) \ Reach(2)
    /\ \A n \in DOMAIN heap :
        /\ \A i \in 1..Len(heap[n].items) :
            LET it == heap[n].items[i] IN
            /\ it.k = "inline_data" => n = h
            /\ it.k # "file_data"
            /\ it.k \in PayloadKeys => (n = c /\ it.k = "data")
            /\ (n = c /\ it.k = "data") \/ ~ImageLike(it.val)
        /\ \A i \in 1..Len(heap[n].elems) : ~ImageLike(heap[n].elems[i])

\* C5 (as claimed): the only inline-data field, three levels down among
\* unrelated siblings, is always returned.
C5_InlineDataFound ==
    \A h, c \in DOMAIN heap :
        (ex_pc = "done" /\ OnlyInlineData(h, c))
            => ex_result = b64decode(ItemOf(Ref(c), "data").v)

\* C5 (amended): it is returned when every container on the way down is a
\* map, a sequence, or an object holding the next level under one of the
\* listed attributes.
C5_InlineDataFoundWhenFollowed ==
    \A h, c \in DOMAIN heap :
        (ex_pc = "done" /\ OnlyInlineData(h, c) /\ h \in FollowedReach(3))
            => /\ ex_result = b64decode(ItemOf(Ref(c), "data").v)
               /\ ex_result.val = Bytes(Image(1))

\* C5 witness: the payload was found under a root object, a list and a map.
C5_Witness ==
    /\ ex_pc = "done"
    /\ \E h, c \in DOMAIN heap : OnlyInlineData(h, c) /\ h \in FollowedReach(3)
    /\ heap[1].kind = "object" /\ ~heap[1].seq
    /\ heap[2].seq
    /\ heap[3].kind = "dict"
    /\ ex_result = Return(Bytes(Image(1)))

\* --- C6 ---

\* every character of s is a letter, a digit, + / = or a line break
AllBase64Chars(s) ==
    \A i \in 1..Len(s) :
        \/ s[i] \in (65..90) \cup (97..122) \cup (48..57)
        \/ s[i] \in {43, 47, 61, 10, 13}

\* C6 (as claimed): a str is handed to the decoder only if it is longer than
\* 80 characters and all its characters are base64 characters.
C6_DecodedOnlyIfLongBase64 ==
    \A s \in ex_str_decoded : Len(s.v) > 80 /\ AllBase64Chars(s.v)

\* C6 (amended): a str popped from the queue is handed to the decoder only if,
\* with the whitespace around it stripped, it is longer than 80 characters and
\* all its characters are base64 characters; any other str gives no image;
\* and no str adds anything to the queue.
C6_StrPass ==
    (ex_pc = "loop" /\ queue # << >> /\ Head(queue).t = "str") =>
        /\ queue' = Tail(queue)
        /\ \/ Len(strip(Head(queue).v)) > 80 /\ AllBase64Chars(strip(Head(queue).v))
           \/ /\ ex_str_decoded' = ex_str_decoded
              /\ ex_pc' = "loop"
              /\ ex_result' = ex_result

C6_DecodedOnlyIfStrippedLongBase64 == [][C6_StrPass]_vars

\* C6 witness: a str of exactly 80 base64 characters was popped and skipped,
\* and the search ended without an image.
C6_Witness ==
    /\ ex_pc = "done"
    /\ \E i \in 1..Len(ex_popped) :
        /\ ex_popped[i].t = "str"
        /\ Len(ex_popped[i].v) = 80
        /\ AllBase64Chars(ex_popped[i].v)
    /\ ex_str_decoded = {}
    /\ ex_result = Return(None)

\* --- C7 ---

\* the values the expansion of a composite enqueues, in the claimed order
C7_Children(x) ==
    IF heap[x.v[1]].kind = "dict"
    THEN [i \in 1..Len(heap[x.v[1]].items) |-> heap[x.v[1]].items[i].val]
    ELSE SelectSeq(
            [i \in 1..10 |->
                getattr(x, << "candidates", "content", "parts", "generated_content",
                              "contents", "responses", "messages", "media", "image",
                              "images" >>[i])],
            LAMBDA v : v # None)
         \o heap[x.v[1]].elems

\* position i of a level holds a composite neither seen on an earlier level
\* nor earlier on this one
C7_FirstSeen(level, i, seen) ==
    /\ IsRef(level[i])
    /\ level[i].v[1] \notin seen
    /\ \A j \in 1..(i - 1) : level[j] # level[i]

\* the next level: the children of the composites first seen on this one
RECURSIVE C7_NextLevel(_, _, _)
C7_NextLevel(level, i, seen) ==
    IF i > Len(level) THEN << >>
    ELSE (IF C7_FirstSeen(level, i, seen) THEN C7_Children(level[i]) ELSE << >>)
         \o C7_NextLevel(level, i + 1, seen)

\* whether each position of a level is expanded (TRUE) or a leaf or a repeat
C7_Fresh(level, seen) == [i \in 1..Len(level) |-> C7_FirstSeen(level, i, seen)]

\* breadth-first order, level by level: the values with their freshness
RECURSIVE C7_Order(_, _)
C7_Order(level, seen) ==
    IF level = << >> THEN << >>
    ELSE [i \in 1..Len(level) |-> [node |-> level[i], fresh |-> C7_Fresh(level, seen)[i]]]
         \o C7_Order(C7_NextLevel(level, 1, seen),
                     seen \cup {level[i].v[1] : i \in {j \in 1..Len(level) : IsRef(level[j])}})

\* what the node at a position of the order yields when it is processed
C7_Yield(e) ==
    IF IsRef(e.node) THEN
        IF ~e.fresh THEN Continues(<< >>)
        ELSE IF isinstance_dict(e.node) THEN expand_dict(e.node)
        ELSE expand_object(e.node)
    ELSE IF e.node.t = "str" THEN expand_str(e.node)
    ELSE IF e.node.t \in {"bytes", "bytearray"} /\ Len(e.node.v) > 0
         THEN Returns(Return(Bytes(e.node.v)))
    ELSE Continues(<< >>)

\* C7: the nodes are processed in breadth-first order (a map's values in key
\* order, an object's present attributes in the fixed order, then its
\* elements), and the result is what the first node of that order that
\* yields a non-empty image yields; None when no node does.
C7_FirstFoundWins ==
    ex_pc \in {"loop", "done"} =>
    \E order \in {C7_Order(IF response = None THEN << >> ELSE <<response>>, {})} :
        /\ Len(ex_popped) <= Len(order)
        /\ \A i \in 1..Len(ex_popped) : ex_popped[i] = order[i].node
        /\ \A i \in 1..(Len(ex_popped) - 1) : ~C7_Yield(order[i]).done
        /\ ex_pc = "done" =>
            IF \E i \in 1..Len(order) : C7_Yield(order[i]).done
            THEN /\ C7_Yield(order[Len(ex_popped)]).done
                 /\ ex_result = C7_Yield(order[Len(ex_popped)]).out
            ELSE /\ ex_result = Return(None)
                 /\ Len(ex_popped) = Len(order)

\* C7 witness: of three payloads under one object, the one held by the
\* attribute that comes first in the fixed order was returned, although the
\* object lists it last.
C7_Witness ==
    /\ ex_pc = "done"
    /\ heap # << >>
    /\ heap[1] = Obj(<<Item("images", ByteArray(Image(5))),
                       Item("parts", Str(b64encode(Image(4)))),
                       Item("candidates", Bytes(Image(2)))>>)
    /\ ex_result = Return(Bytes(Image(2)))

-----------------------------------------------------------------------------
(* Claims about the session history. *)

\* an entry is the earlier entry: the same fields, but for the id that
\* render_history gives an entry that had none
EntryKept(now, earlier) ==
    /\ now.prompt = earlier.prompt
    /\ now.model = earlier.model
    /\ now.no_text = earlier.no_text
    /\ now.image_bytes = earlier.image_bytes
    /\ earlier.id.t = "str" => now.id = earlier.id

\* an entry the Generate branch made from the prompt " c"
Generated(entry) ==
    /\ entry.prompt = Str(<<99>>)
    /\ entry.image_bytes = Bytes(<<1>>)
    /\ entry.id.t = "str"
    /\ Len(entry.id.v) = 5
    /\ SubSeq(entry.id.v, 1, 4) = <<105, 109, 103, 95>>

\* C8: after a run of main whose Generate branch got an image, the history is
\* the new entry followed by the entries that were there, in their order.
C8_NewestFirst ==
    hs_run.inserted =>
        /\ Len(session_state.history) = Len(hs_run.before) + 1
        /\ Generated(session_state.history[1])
        /\ \A i \in 1..Len(hs_run.before) :
            /\ session_state.history[1].id # hs_run.before[i].id
            /\ EntryKept(session_state.history[i + 1], hs_run.before[i])

\* C8 witness: two entries were generated in one session, the history is
\* [E2, E1].
C8_Witness ==
    /\ hs_run.inserted
    /\ Len(session_state.history) = 2
    /\ Generated(session_state.history[1])
    /\ Generated(session_state.history[2])
    /\ hs_run.before = <<session_state.history[2]>>
    /\ session_state.history[1].id.v[5] > session_state.history[2].id.v[5]

\* both are None, or both are binary data of the same bytes
SameImage(a, b) ==
    \/ a = None /\ b = None
    \/ /\ a.t \in {"bytes", "bytearray"}
       /\ b.t \in {"bytes", "bytearray"}
       /\ a.v = b.v

\* C9: a history that load_history_from_storage restores from a file that
\* persist_history_to_storage wrote has the length and the order of the
\* history persisted, with equal id, prompt, model, no_text and image bytes.
C9_RoundTrip ==
    (hs_run.restored /\ hs_run.restored_key \in DOMAIN hs_saved) =>
        /\ Len(hs_run.restored_list) = Len(hs_saved[hs_run.restored_key])
        /\ \A i \in 1..Len(hs_run.restored_list) :
            /\ hs_run.restored_list[i].id = hs_saved[hs_run.restored_key][i].id
            /\ hs_run.restored_list[i].prompt = hs_saved[hs_run.restored_key][i].prompt
            /\ hs_run.restored_list[i].model = hs_saved[hs_run.restored_key][i].model
            /\ hs_run.restored_list[i].no_text = hs_saved[hs_run.restored_key][i].no_text
            /\ SameImage(hs_run.restored_list[i].image_bytes,
                         hs_saved[hs_run.restored_key][i].image_bytes)

\* C9, for the histories whose images are None or non-empty: the round trip
\* holds.
C9_RoundTripNonEmpty ==
    (/\ hs_run.restored
     /\ hs_run.restored_key \in DOMAIN hs_saved
     /\ \A i \in 1..Len(hs_saved[hs_run.restored_key]) :
            hs_saved[hs_run.restored_key][i].image_bytes # Bytes(<< >>))
        => C9_RoundTrip

\* C10: clear_history_storage raises nothing.
C10_ClearNeverRaises == hs_run.src # "clear_history_storage"

\* C10, where os.makedirs succeeds or HISTORY_DIR exists: the call raises
\* nothing, leaves the files alone when the session has no record, and a
\* second call changes nothing more.
C10_ClearIdempotent ==
    \A F \in Faults \ {{"mkdir"}} :
        \E once \in {clear_history_storage(World, F)} :
            \E twice \in {clear_history_storage(once.w, F)} :
                /\ once.exc = ""
                /\ twice.exc = ""
                /\ twice.w.files = once.w.files
                /\ twice.w.cookies = once.w.cookies
                /\ twice.w.ss.history = once.w.ss.history
                /\ once.w.cookies = cookies
                /\ (\A name \in DOMAIN files : name \in DOMAIN once.w.files)
                        => once.w.files = files

\* no cookie mechanism in a run with the faults F: CookieController was not
\* imported, or no controller is cached and the constructor raises
NoCookieMechanism(F) ==
    \/ ~cookie_lib
    \/ ~session_state.cookie_controller /\ "ctor" \in F

\* C11: without a cookie mechanism get_browser_session_id returns None (asked
\* to create a token or not), load_history_from_storage returns None, and
\* persist_history_to_storage and clear_history_storage leave the files, the
\* directory and the cookies as they are; none of them raises.
C11_NoCookiesNoOp ==
    \A F \in Faults :
        NoCookieMechanism(F) =>
            /\ \A create \in BOOLEAN :
                \E s \in {get_browser_session_id(World, F, create)} :
                    s.exc = "" /\ s.val = None /\ s.w.cookies = cookies
            /\ \E l \in {load_history_from_storage(World, F)} :
                    l.exc = "" /\ l.val = NoHistory /\ l.w.files = files
            /\ \E p \in {persist_history_to_storage(World, F)} :
                    /\ p.exc = ""
                    /\ p.w.files = files
                    /\ p.w.dir = hist_dir
                    /\ p.w.cookies = cookies
            /\ \E c \in {clear_history_storage(World, F)} :
                    /\ c.exc = ""
                    /\ c.w.files = files
                    /\ c.w.dir = hist_dir
                    /\ c.w.cookies = cookies

\* C11 witness: without CookieController a Generate put its entry into the
\* history and its persist step left the record found on disk as it was.
C11_Witness ==
    /\ ~cookie_lib
    /\ hs_run.inserted
    /\ ~hs_run.persisted
    /\ hs_run.exc = ""
    /\ Len(session_state.history) = 1
    /\ LegacyName \in DOMAIN files
    /\ files[LegacyName].json = "dict"
    /\ Len(files[LegacyName].entries) = 2

\* C12: load_history_from_storage raises nothing, whatever the record of the
\* session holds: no exception leaves a run of main through it.
C12_LoadNeverRaises == hs_run.src # "load_history_from_storage"

\* C12, for the records whose "history" elements are all objects and with
\* os.makedirs succeeding: the load raises nothing, and when the record is
\* absent, unreadable or of another shape it reports no history.
C12_LoadOfEntriesNeverRaises ==
    \A F \in Faults \ {{"mkdir"}} :
        (\A name \in DOMAIN files :
            \A i \in 1..Len(files[name].entries) : files[name].entries[i].dict)
        => \E l \in {load_history_from_storage(World, F)} :
            /\ l.exc = ""
            /\ l.val.some =>
                \E s \in {get_browser_session_id(World, F, FALSE)} :
                    /\ Truthy(s.val)
                    /\ SelectSeq(s.val.v, is_safe_char) \in DOMAIN files
                    /\ files[SelectSeq(s.val.v, is_safe_char)].json = "dict"
                    /\ files[SelectSeq(s.val.v, is_safe_char)].history_is_list

\* the run of main was a logout that went through to its rerun
LogoutCompleted ==
    /\ hs_run.op = "logout"
    /\ hs_run.exc = "RerunException"
    /\ hs_run.src = "logout"

\* the record of the session cookie is not on disk
NoRecordOfSession ==
    Truthy(cookies.browser_session_id) =>
        SelectSeq(cookies.browser_session_id.v, is_safe_char) \notin DOMAIN files

C14_Kept(c) ==
    \/ c \in 48..57
    \/ c \in 65..90
    \/ c \in 97..122
    \/ c = 233
    \/ c = 45
    \/ c = 95

\* session identifiers: "a1", "a/1", "a-1", "a_1", "a.1", " a1", "b1", "e'1"
\* with e acute, "/"
C14_Ids ==
    { <<97, 49>>, <<97, 47, 49>>, <<97, 45, 49>>, <<97, 95, 49>>, <<97, 46, 49>>,
      <<32, 97, 49>>, <<98, 49>>, <<233, 49>>, <<47>> }

\* the record name _get_history_path makes of a session identifier
C14_RecordOf(id) == get_history_path(World, {}, Str(id)).val

\* C14 (as claimed): two different session identifiers never have the same
\* record.
C14_DistinctIdsDistinctRecords ==
    \E record \in {[a \in C14_Ids |-> C14_RecordOf(a)]} :
        \A a, b \in C14_Ids : a # b => record[a] # record[b]

\* C14 (amended): the record key is the session identifier without the
\* characters that are not alphanumerics, - or _; two identifiers have the
\* same record exactly when they are equal after that removal; and the record
\* a run restores is the one of its session cookie.
C14_RecordKeyIsSanitizedId ==
    /\ \E record \in {[a \in C14_Ids |-> C14_RecordOf(a)]} :
        /\ \A a \in C14_Ids :
            /\ \A i \in 1..Len(record[a]) : C14_Kept(record[a][i])
            /\ record[a] = SelectSeq(a, C14_Kept)
        /\ \A a, b \in C14_Ids :
            (record[a] = record[b]) <=> (SelectSeq(a, C14_Kept) = SelectSeq(b, C14_Kept))
    /\ hs_run.restored =>
        /\ Truthy(cookies.browser_session_id)
        /\ hs_run.restored_key = SelectSeq(cookies.browser_session_id.v, C14_Kept)
    /\ hs_run.persisted =>
        /\ Truthy(cookies.browser_session_id)
        /\ SelectSeq(cookies.browser_session_id.v, C14_Kept) \in DOMAIN files

\* C14 witness: the session whose cookie is "a/1" restored the record "a1".
C14_Witness ==
    /\ hs_run.restored
    /\ cookies.browser_session_id = Str(<<97, 47, 49>>)
    /\ hs_run.restored_key = <<97, 49>>
    /\ Len(session_state.history) > 0

-----------------------------------------------------------------------------
(* Claims: file names *)

\* the code points of the control characters (general category Cc)
C15_Control == 0..31 \cup 127..159

RECURSIVE C15_Concat(_, _)
C15_Concat(piece(_), text) ==
    IF text = << >> THEN << >> ELSE piece(Head(text)) \o C15_Concat(piece, Tail(text))

RECURSIVE C15_DropLeading(_)
C15_DropLeading(s) ==
    IF s # << >> /\ Head(s) = 95 THEN C15_DropLeading(Tail(s)) ELSE s

RECURSIVE C15_DropTrailing(_)
C15_DropTrailing(s) ==
    IF s # << >> /\ s[Len(s)] = 95 THEN C15_DropTrailing(SubSeq(s, 1, Len(s) - 1)) ELSE s

C15_First80(s) == IF s = << >> THEN prompt_literal ELSE SubSeq(s, 1, IF Len(s) < 80 THEN Len(s) ELSE 80)

\* every whitespace other than a newline becomes "_", what is left of the
\* control and path-unsafe characters goes
C15_Stated(text) ==
    C15_First80(C15_Concat(LAMBDA c : IF c \in {10, 13} THEN newline_marker
                                      ELSE IF IsSpace(c) THEN <<95>>
                                      ELSE IF c \in C15_Control \cup path_unsafe THEN << >>
                                      ELSE <<c>>,
                           text))

\* C15 as stated: the component is non-empty, at most 80 long, free of control
\* and path-unsafe characters, and is the prompt with each newline or
\* carriage return replaced by -n- and each other whitespace by _, or
\* "prompt" when nothing remains.
C15_SanitizedAsStated ==
    fn_pc = "sanitized" =>
        /\ fn_result # << >>
        /\ Len(fn_result) <= 80
        /\ \A i \in 1..Len(fn_result) : fn_result[i] \notin C15_Control \cup path_unsafe
        /\ fn_result = C15_Stated(fn_input)

\* characters below code point 32 go before whitespace is looked at, and the
\* "_" at both ends go before the fallback and the cut
C15_Computed(text) ==
    C15_First80(C15_DropTrailing(C15_DropLeading(
        C15_Concat(LAMBDA c : IF c \in {10, 13} THEN newline_marker
                              ELSE IF c < 32 \/ c \in path_unsafe THEN << >>
                              ELSE IF IsSpace(c) THEN <<95>>
                              ELSE <<c>>,
                   text))))

\* C15, corrected: the component is non-empty, at most 80 long, has no
\* character below code point 32 and no path-unsafe character; it is the
\* prompt with each newline or carriage return replaced by -n-, every other
\* character below 32 (tab included) removed, each remaining whitespace
\* replaced by _, the "_" at both ends removed, "prompt" when nothing remains,
\* cut to 80 characters; the file name is user01_, that component, _, the
\* random suffix and .png, appended after the cut.
C15_SanitizedFilename ==
    /\ fn_pc = "sanitized" =>
            /\ fn_result # << >>
            /\ Len(fn_result) <= 80
            /\ \A i \in 1..Len(fn_result) :
                    fn_result[i] >= 32 /\ fn_result[i] \notin path_unsafe
            /\ fn_result = C15_Computed(fn_input)
    /\ fn_pc = "built" =>
            \E n \in 0..1 : \E component \in {C15_Computed(IF fn_input = << >> THEN prompt_literal
                                                           ELSE fn_input)} :
                /\ Len(component) <= 80
                /\ fn_result = filename_prefix \o component \o <<95>> \o uuid4_hex(n)
                                    \o filename_extension

\* a prompt with a tab whose newline marker the cut splits
C15_Witness ==
    /\ fn_pc = "sanitized"
    /\ Len(fn_input) = 80
    /\ fn_input[79] = 9
    /\ fn_input[80] = 10
    /\ fn_result = Rep(97, 78) \o <<45, 110>>

\* a file name built from a prompt longer than the cut
C15_WitnessBuilt ==
    /\ fn_pc = "built"
    /\ Len(fn_input) = 81
    /\ fn_result = filename_prefix \o Rep(97, 80) \o <<95>> \o uuid4_hex(1) \o filename_extension

-----------------------------------------------------------------------------
(* Claims: the Generate action *)

\* the last run was a Generate that main stopped on its critical path
C16_FailedGenerate ==
    /\ hs_run.op = "generate"
    /\ hs_run.exc = "StopException"
    /\ hs_run.src = "main"

\* the Generate run r added its entry and completed
C16_Succeeded(r, before) ==
    /\ r.exc = ""
    /\ r.w.run.inserted
    /\ r.w.run.uploaded = "ok"
    /\ Len(r.w.ss.history) = Len(before) + 1

\* a Generate of this state that meets no fault and gets an image succeeds,
\* at once or when clicked again after the rerun that the cookie
\* synchronisation asks for
C16_CanSucceed ==
    \E inp \in GenerateInputs :
        \E r \in {main(World, {}, inp)} :
            \/ C16_Succeeded(r, session_state.history)
            \/ /\ r.exc = "RerunException"
               /\ r.src = "sync_cookie_controller"
               /\ \E again \in {main([r.w EXCEPT !.run = World.run], {}, inp)} :
                      C16_Succeeded(again, session_state.history)

\* C16: a Generate that fails on its critical path uploads nothing, adds no
\* entry to the in-memory history and leaves every persisted record as it was;
\* the session then still shows the main page, and a Generate that gets an
\* image succeeds from there (on the second click when the first one is
\* spent on the rerun of the cookie synchronisation).
C16_FailedGenerateHaltsOnlyItself ==
    /\ [][C16_FailedGenerate' =>
            /\ hs_run'.uploaded = ""
            /\ ~hs_run'.inserted
            /\ ~hs_run'.persisted
            /\ session_state'.history = session_state.history
            /\ files' = files
            /\ hs_saved' = hs_saved]_vars
    /\ [](C16_FailedGenerate => (page = "main" /\ C16_CanSucceed))

\* a Generate that failed in a session whose earlier Generate was persisted
C16_Witness ==
    /\ C16_FailedGenerate
    /\ Len(session_state.history) = 1
    /\ uuid_count = 1
    /\ hs_saved # NoFiles
    /\ DOMAIN files = DOMAIN hs_saved

\* the last run inserted its entry at the front of the in-memory history
C17_EntryAtFront ==
    /\ session_state.history # << >>
    /\ Tail(session_state.history) = hs_run.before
    /\ Truthy(Head(session_state.history).image_bytes)

\* C17: a Generate whose image was extracted has its entry at the front of the
\* in-memory history and completes without raising, whatever fails in the
\* upload or in the persist step.
C17_GenerateNeverAborted ==
    hs_run.inserted => (C17_EntryAtFront /\ hs_run.exc = "")

\* What holds: the entry is at the front whatever fails; the run completes
\* when the upload, the open or the write fails, and is left with OSError
\* only when HISTORY_DIR could not be created.
C17_GenerateAbortedOnlyByMakedirs ==
    hs_run.inserted =>
        /\ C17_EntryAtFront
        /\ hs_run.uploaded \in {"ok", "failed"}
        /\ hs_run.uploaded = "failed" => hs_run.exc = ""
        /\ hs_run.exc # "" =>
                /\ hs_run.exc = "OSError"
                /\ hs_run.src = "persist_history_to_storage"
                /\ ~hist_dir
                /\ ~hs_run.persisted

-----------------------------------------------------------------------------
(* Claims: credentials *)

\* the values configured for the keys, in the auth section or at top level
C18_Configured(config, keys, top_keys) ==
    IF ~config.secrets THEN {}
    ELSE ({config.top[k] : k \in top_keys}
          \cup (IF config.has_auth THEN {config.auth[keys[i]] : i \in 1..Len(keys)} ELSE {}))
         \ {None}

\* the configured values, as text, trimmed, the blank ones left out
C18_NonBlank(values) ==
    {Str(strip(py_str(v).v)) : v \in values \ {None}} \ {Str(<< >>)}

C18_Usernames == C18_NonBlank(C18_Configured(fn_input, username_keys, {"USERNAME", "ID"}))

C18_Passwords == C18_NonBlank(C18_Configured(fn_input, password_keys, {"PASSWORD", "PASS"}))

C18_WitnessFallback ==
    /\ fn_pc = "basic_setting"
    /\ fn_input.has_auth
    /\ fn_input.auth.username = Str(<<117>>)
    /\ fn_input.auth.password = Str(<<32>>)
    /\ fn_input.top.PASSWORD = Str(<<32, 119>>)
    /\ fn_result = <<mezamashi, mezamashi>>

-----------------------------------------------------------------------------
(* Claims: the persisted record *)

\* the last run was a Generate that completed, with the record written
C19_Persisted ==
    /\ hs_run.op = "generate"
    /\ hs_run.exc = ""
    /\ hs_run.inserted
    /\ hs_run.persisted

\* the name of the record of the session cookie
C19_Record == SelectSeq(cookies.browser_session_id.v, is_safe_char)

\* C19: after a Generate that completed with the record written, the record
\* of the session token is an object whose history is the serialization of
\* the whole in-memory history, entry by entry in the same order; the run
\* wrote that one record and no other file.
C19_RecordIsWholeHistory ==
    /\ [](C19_Persisted =>
            /\ Truthy(cookies.browser_session_id)
            /\ C19_Record \in DOMAIN files
            /\ files[C19_Record].json = "dict"
            /\ files[C19_Record].history_is_list
            /\ Len(files[C19_Record].entries) = Len(session_state.history)
            /\ \A i \in 1..Len(session_state.history) :
                    files[C19_Record].entries[i] = serialize_entry(session_state.history[i]))
    /\ [][C19_Persisted' =>
            /\ DOMAIN files' = DOMAIN files \cup {C19_Record'}
            /\ \A name \in DOMAIN files \ {C19_Record'} : files'[name] = files[name]]_vars

\* a second Generate rewrote the record of a restored session with both entries
C19_Witness ==
    /\ C19_Persisted
    /\ Len(session_state.history) = 2
    /\ Len(hs_run.before) = 1
    /\ Len(files[C19_Record].entries) = 2
    /\ files[C19_Record].entries[2] = serialize_entry(hs_run.before[1])

-----------------------------------------------------------------------------
(* Claims: the extractor on a map *)

\* the pass about to run expands a map
C20_MapPass ==
    /\ ex_pc = "loop"
    /\ queue # << >>
    /\ isinstance_dict(Head(queue))
    /\ Head(queue).v[1] \notin visited

\* the nested data of a container: its attribute or, for a map, its entry
C20_Nested(container) ==
    IF ~IsRef(container) THEN None
    ELSE IF Node(container).kind = "dict" THEN dict_get(container, "data")
    ELSE getattr(container, "data")

\* what decoding a value gives, None when it does not decode
C20_Decoded(value) == decode_image_data(value).val

\* the decodes the claim lists for the map m, in its order
C20_Attempts(m) ==
    <<C20_Decoded(C20_Nested(dict_get(m, "inline_data"))),
      IF Truthy(dict_get(m, "file_data"))
      THEN C20_Decoded(C20_Nested(dict_get(m, "file_data")))
      ELSE None>>
    \o [i \in 1..Len(Node(m).items) |->
            IF Node(m).items[i].k \in {"data", "image", "blob"}
            THEN C20_Decoded(Node(m).items[i].val)
            ELSE None]

\* the values of the maps expanded so far
C20_MapValues ==
    UNION {{heap[ex_expanded[n]].items[i].val : i \in 1..Len(heap[ex_expanded[n]].items)} :
            n \in {n \in 1..Len(ex_expanded) : heap[ex_expanded[n]].kind = "dict"}}

\* C20: the pass that expands a map returns the first non-empty result among
\* the decode of inline_data's nested data, of file_data's nested data and of
\* the values under data, image or blob in the order of the pairs; when none
\* decodes, the values of all pairs are appended to the queue in that order
\* and the search goes on; a call that returns no image has popped every
\* value of every map it expanded.
C20_MapTriesInOrderAndEnqueues ==
    /\ [][C20_MapPass =>
            \E attempts \in {C20_Attempts(Head(queue))} :
                IF \E n \in 1..Len(attempts) : Truthy(attempts[n])
                THEN /\ ex_pc' = "done"
                     /\ ex_result' =
                            Return(attempts[CHOOSE n \in 1..Len(attempts) :
                                        /\ Truthy(attempts[n])
                                        /\ \A j \in 1..(n - 1) : ~Truthy(attempts[j])])
                ELSE /\ ex_pc' = "loop"
                     /\ queue' = Tail(queue)
                                    \o [i \in 1..Len(Node(Head(queue)).items) |->
                                            Node(Head(queue)).items[i].val]]_vars
    /\ []((ex_pc = "done" /\ ex_result = Return(None)) =>
            /\ queue = << >>
            /\ \A value \in C20_MapValues : \E i \in 1..Len(ex_popped) : ex_popped[i] = value)

\* neither the nested data nor the pairs under blob and data decoded, and the
\* image one level below the map was found
C20_Witness ==
    /\ ex_pc = "done"
    /\ Len(heap) = 4
    /\ heap[1].items[1] = Item("blob", Hello)
    /\ heap[1].items[5] = Item("data", Hello)
    /\ heap[2].items[1].val = Hello
    /\ heap[3].items[1].val = Hello
    /\ ex_result = Return(Bytes(Image(9)))

-----------------------------------------------------------------------------
(* Claims: the entries of the history *)

\* the step is a run of main that neither cleared the history at logout nor
\* replaced it by the restored one
C21_KeepingRun ==
    /\ hs_run'.op \in {"none", "login", "logout", "generate"}
    /\ ~(hs_run'.op = "logout" /\ session_state'.history = << >>)
    /\ ~hs_run'.restored

\* how many entries the step put in front
C21_Shift == Len(session_state'.history) - Len(session_state.history)

\* C21 as stated: a run that does not clear the history leaves every entry
\* that was in the in-memory history in it, with its id, prompt, model,
\* no_text and image bytes.
C21_EntriesImmutable ==
    [][C21_KeepingRun =>
        /\ C21_Shift \in {0, 1}
        /\ \A i \in 1..Len(session_state.history) :
                session_state'.history[i + C21_Shift] = session_state.history[i]]_vars

\* C21, corrected: such a run changes no prompt, model, no_text or image
\* bytes, and no id but that of an entry with an image whose id is not a str,
\* which render_history replaces by a fresh img_ id.
C21_EntriesImmutableButMissingId ==
    [][C21_KeepingRun =>
        /\ C21_Shift \in {0, 1}
        /\ \A i \in 1..Len(session_state.history) :
                \E now \in {session_state'.history[i + C21_Shift]} :
                \E earlier \in {session_state.history[i]} :
                    /\ now.prompt = earlier.prompt
                    /\ now.model = earlier.model
                    /\ now.no_text = earlier.no_text
                    /\ now.image_bytes = earlier.image_bytes
                    /\ now.id # earlier.id =>
                            /\ earlier.id.t # "str"
                            /\ Truthy(earlier.image_bytes)
                            /\ now.id.t = "str"
                            /\ SubSeq(now.id.v, 1, 4) = <<105, 109, 103, 95>>]_vars

\* the entry restored from a record without an id was rendered: it has an
\* id now, and the record still has none
C21_Witness ==
    /\ hs_run.op = "none"
    /\ hs_run.exc = ""
    /\ Len(session_state.history) = 1
    /\ session_state.history[1].image_bytes = Bytes(<<9>>)
    /\ session_state.history[1].id = Str(<<105, 109, 103, 95>> \o uuid4_hex(0))
    /\ LegacyName \in DOMAIN files
    /\ files[LegacyName].entries = <<StoredEntry(None, Str(b64encode(<<9>>)))>>

-----------------------------------------------------------------------------
(* Claims: loading the history *)

\* the record of the session cookie is there and readable as a list of entries
C22_RecordReadable ==
    /\ Truthy(cookies.browser_session_id)
    /\ C19_Record \in DOMAIN files
    /\ files[C19_Record].json = "dict"
    /\ files[C19_Record].history_is_list
    /\ \A i \in 1..Len(files[C19_Record].entries) : files[C19_Record].entries[i].dict

\* C22: within a browser session _history_loaded never goes back to false;
\* with the flag set init_history reads nothing, raises nothing and leaves the
\* history, the files and the cookies as they are, whatever fails; the flag is
\* left unset by init_history only when a cookie controller exists, and the
\* next init_history then loads the record if the token has become readable.
C22_LoadedOnce ==
    /\ [][(session_state.history_loaded /\ hs_run'.op # "reload")
                => session_state'.history_loaded]_vars
    /\ [][(session_state.history_loaded /\ hs_run'.op # "reload") => ~hs_run'.restored]_vars
    /\ [](session_state.history_loaded =>
            \A F \in Faults : init_history(World, F) = Ret(World, None))
    /\ []((~session_state.history_loaded /\ session_state.has_history) =>
            /\ cookie_lib
            /\ session_state.cookie_controller
            /\ C22_RecordReadable =>
                    \E r \in {init_history(World, {})} :
                        /\ r.exc = ""
                        /\ r.w.run.restored
                        /\ r.w.ss.history_loaded
                        /\ r.w.ss.history = deserialize_history(files[C19_Record].entries))

\* the run of the login form restored the history that the run before it,
\* unable to read the cookie, had not loaded
C22_Witness ==
    /\ hs_run.op = "login"
    /\ hs_run.restored
    /\ session_state.history_loaded
    /\ session_state.history = hs_run.restored_list
    /\ Len(session_state.history) = 2

-----------------------------------------------------------------------------
(* Claims: what the extractor returns *)

\* what a popped value yields by itself
C23_Yield(value) ==
    IF ~IsRef(value) THEN loop_body(value)
    ELSE IF isinstance_dict(value) THEN expand_dict(value)
    ELSE expand_object(value)

\* C23: collect_image_bytes raises nothing and returns None or non-empty
\* bytes; it returns None exactly when none of the values it popped yields a
\* non-empty image, and then the queue is exhausted; otherwise it returns what
\* the last value popped yields.
C23_NoneOrNonEmpty ==
    ex_pc = "done" =>
        /\ ex_result.exc = ""
        /\ \/ ex_result.val = None
           \/ ex_result.val.t = "bytes" /\ Len(ex_result.val.v) > 0
        /\ ex_result.val = None <=>
                \A i \in 1..Len(ex_popped) : ~C23_Yield(ex_popped[i]).done
        /\ ex_result.val = None => queue = << >>
        /\ ex_result.val # None =>
                /\ C23_Yield(ex_popped[Len(ex_popped)]).out = ex_result
                /\ \A i \in 1..(Len(ex_popped) - 1) : ~C23_Yield(ex_popped[i]).done

\* a map whose inline data is empty bytes, whose file data decodes to zero
\* bytes and whose list holds an empty bytearray gave None
C23_Witness ==
    /\ ex_pc = "done"
    /\ Len(heap) = 4
    /\ heap[2].items[1].val = Str(<<33>>)
    /\ heap[3].items[1].val = Bytes(<< >>)
    /\ heap[4].elems = <<ByteArray(<< >>)>>
    /\ \E i \in 1..Len(ex_popped) : ex_popped[i] = ByteArray(<< >>)
    /\ ex_result = Return(None)

-----------------------------------------------------------------------------
(* Claims: the session token *)

\* C24: a session token stored in the browser cookie is never replaced.
C24_TokenNeverReplaced ==
    [][Truthy(cookies.browser_session_id)
        => cookies'.browser_session_id = cookies.browser_session_id]_vars

\* What holds: get_browser_session_id(create=False) never writes the cookie,
\* and with create=True a stored token is returned and kept whenever the
\* cookie could be read; a token is minted only after a read that gave
\* nothing or failed.
C24_TokenKeptWhenRead ==
    \A F \in Faults : \A create \in BOOLEAN :
        \E r \in {get_browser_session_id(World, F, create)} :
            /\ r.exc = ""
            /\ ~create => r.w.cookies = cookies
            /\ (Truthy(cookies.browser_session_id) /\ "get" \notin F) =>
                    /\ r.w.cookies = cookies
                    /\ r.val \in {None, cookies.browser_session_id}
            /\ r.w.cookies # cookies =>
                    /\ create
                    /\ ~Truthy(cookies.browser_session_id) \/ "get" \in F
                    /\ r.w.cookies.browser_session_id = Str(uuid4_hex(uuid_count))
                    /\ r.val = r.w.cookies.browser_session_id


-----------------------------------------------------------------------------
(* Claims: the record across persists *)

\* the entries of a record that load_history_from_storage can deserialize
C25_Entries(fs, name) ==
    IF /\ name \in DOMAIN fs
       /\ fs[name].json = "dict"
       /\ fs[name].history_is_list
       /\ \A i \in 1..Len(fs[name].entries) : fs[name].entries[i].dict
    THEN fs[name].entries
    ELSE << >>

\* a stored entry is the earlier stored entry: the same prompt, model and
\* no_text, and the same id when the earlier one had an id
C25_StoredKept(now, earlier) ==
    /\ now.prompt = earlier.prompt
    /\ now.model = earlier.model
    /\ now.no_text = earlier.no_text
    /\ earlier.id.t = "str" => now.id = earlier.id

\* the record written holds the entries it held, in their order, after the
\* new entry
C25_Extends(new, old) ==
    /\ Len(new) > Len(old)
    /\ \A i \in 1..Len(old) : C25_StoredKept(new[Len(new) - Len(old) + i], old[i])

\* the step is a Generate whose persist_history_to_storage wrote a record
C25_PersistStep ==
    /\ hs_run'.op = "generate"
    /\ hs_run'.persisted

\* C25: a persist never loses history: the record written by
\* persist_history_to_storage holds every entry the record of the session
\* token held before the write, in their order, after the new entry.
C25_PersistKeepsRecord ==
    [][C25_PersistStep =>
        C25_Extends(C25_Entries(files', C19_Record'), C25_Entries(files, C19_Record'))]_vars

\* the in-memory history ends with the entries of the record
C25_InMemory(history, old) ==
    /\ Len(history) >= Len(old)
    /\ \A i \in 1..Len(old) :
            C25_StoredKept(serialize_entry(history[Len(history) - Len(old) + i]), old[i])

\* What holds: the record written keeps the entries it held whenever the
\* session had not marked its history loaded, or held those entries in
\* memory; a load that failed on a readable token marks the history loaded
\* with nothing in memory, and the next persist writes over the record.
C25_PersistKeepsLoadedRecord ==
    [][(/\ C25_PersistStep
        /\ session_state.history_loaded =>
                C25_InMemory(session_state.history, C25_Entries(files, C19_Record')))
        => C25_Extends(C25_Entries(files', C19_Record'), C25_Entries(files, C19_Record'))]_vars

-----------------------------------------------------------------------------
(* Claims: the cookie sync stage *)

\* the run that ended was stopped by the rerun sync_cookie_controller asked for
C26_SyncRerun(run) ==
    /\ run.exc = "RerunException"
    /\ run.src = "sync_cookie_controller"

\* C26: the cookie sync stage is 0, 1 or 2 and never decreases within a
\* session; sync_cookie_controller asks for a rerun only on the step from
\* stage 0 to stage 1, so never again once the stage has left 0; a refresh
\* that fails leaves the stage as it was and asks for no rerun.
C26_SyncStages ==
    /\ [](session_state.cookies_sync_stage \in {0, 1, 2})
    /\ [][hs_run'.op # "reload" =>
            session_state'.cookies_sync_stage >= session_state.cookies_sync_stage]_vars
    /\ [][C26_SyncRerun(hs_run') =>
            /\ session_state.cookies_sync_stage = 0
            /\ session_state'.cookies_sync_stage = 1]_vars
    /\ [](\A F \in Faults :
            \E r \in {sync_cookie_controller(World, F)} :
                /\ r.exc \in {"", "RerunException"}
                /\ r.exc = "RerunException" <=>
                        /\ session_state.cookies_sync_stage = 0
                        /\ r.w.ss.cookies_sync_stage = 1
                /\ "get" \in F =>
                        /\ r.w.ss.cookies_sync_stage = session_state.cookies_sync_stage
                        /\ r.exc = "")

\* a session whose first run was rerun by sync_cookie_controller has reached
\* stage 2 in a later run that was not rerun
C26_Witness ==
    /\ session_state.cookies_sync_stage = 2
    /\ hs_run.op = "none"
    /\ hs_run.exc = "StopException"
    /\ page = "login"

-----------------------------------------------------------------------------
(* Claims: the authenticated flag *)

\* what a run can be started with: no button, the login form with the
\* configured pair or another, logout, Generate
C27_Inputs ==
    {Input("none", FALSE, "", << >>, None),
     Input("login", TRUE, "", << >>, None),
     Input("login", FALSE, "", << >>, None),
     Input("logout", FALSE, "", << >>, None),
     Input("generate", FALSE, "response", <<32, 99>>, Bytes(<<1>>))}

\* the run got past require_login: it ran logout, the Generate branch or
\* render_history
C27_PastLogin(run) ==
    \/ run.exc = ""
    \/ run.inserted
    \/ run.uploaded # ""
    \/ run.cleared # ""
    \/ run.src \in {"logout", "generate", "persist_history_to_storage",
                    "clear_history_storage"}

\* C27: the authenticated flag becomes true only when the login cookie
\* holds "1" or the form submitted the configured username and password;
\* the code after require_login runs only with the flag true; logout sets
\* the flag to false and, with a cookie controller, removes the login cookie
\* unless the removal raises.
C27_Authenticated ==
    /\ [](\A F \in Faults : \A inp \in C27_Inputs :
            \E r \in {require_login(World, F, inp)} :
                /\ r.exc = "" => r.w.ss.authenticated
                /\ r.exc # "" => r.src = "require_login"
                /\ (r.w.ss.authenticated /\ ~session_state.authenticated) =>
                        \/ cookies.logged_in = LOGGED_IN
                        \/ inp.button = "login" /\ inp.login_ok)
    /\ [][(session_state'.authenticated /\ ~session_state.authenticated) =>
            \/ cookies.logged_in = LOGGED_IN
            \/ hs_run'.op = "login" /\ hs_run'.src = "require_login"
                    /\ hs_run'.exc = "RerunException"]_vars
    /\ [][(C27_PastLogin(hs_run') /\ hs_run'.op \in {"none", "login", "generate"}) =>
            session_state'.authenticated]_vars
    /\ [][(C27_PastLogin(hs_run') /\ hs_run'.op = "logout") =>
            /\ session_state.authenticated \/ cookies.logged_in = LOGGED_IN
            /\ ~session_state'.authenticated]_vars
    /\ [](\A F \in Faults :
            \E l \in {logout(World, F)} :
                /\ ~l.w.ss.authenticated
                /\ l.w.cookies.logged_in \in {None, cookies.logged_in}
                /\ (~NoCookieMechanism(F) /\ "set" \notin F) =>
                        l.w.cookies.logged_in = None)

\* the form was accepted in a browser without a login cookie, whose write
\* failed: the flag is true by the submitted pair alone
C27_Witness ==
    /\ hs_run.op = "login"
    /\ hs_run.exc = "RerunException"
    /\ hs_run.src = "require_login"
    /\ session_state.authenticated
    /\ cookies.logged_in = None

\* a logout ended the session of a restored login: the flag is false and the
\* login cookie is gone
C27_WitnessLogout ==
    /\ hs_run.op = "logout"
    /\ hs_run.src = "logout"
    /\ hs_run.cleared = "removed"
    /\ ~session_state.authenticated
    /\ cookies.logged_in = None
====
